---- MODULE Spec2Model ----
(***************************************************************************)
(* A model of the video-wizard processing engine                           *)
(* (apps/processing-engine): the aspect planner, the candidate scorer, the *)
(* two moving-average smoothers, the interpolator, the recursive (Kalman)  *)
(* smoother, the render stage and the HTTP handlers that drive them.       *)
(*                                                                         *)
(* Python floats are modelled by exact rationals [n, d] (d > 0, lowest     *)
(* terms); int(x) is truncation toward zero.  Every operation of the       *)
(* program is one action: it draws the call's inputs, runs the whole call  *)
(* and leaves the call, what it returned or raised, and the collaborator   *)
(* calls it made (probe, capture, detector, encoder) in the state.         *)
(***************************************************************************)
EXTENDS Integers, Sequences, FiniteSets, TLC

VARIABLES
    call,                 \* the operation run last and its arguments
    result,               \* what that operation returned or raised
    log,                  \* collaborator calls made by that operation, in order
    process_variance,     \* KalmanSmoother.process_variance
    measurement_variance, \* KalmanSmoother.measurement_variance
    estimate,             \* KalmanSmoother.estimate (<<>> is None, <<r>> is r)
    error,                \* KalmanSmoother.error
    fed                   \* how many measurements the KalmanSmoother has been given

vars == <<call, result, log, process_variance, measurement_variance, estimate, error, fed>>

kalman_vars == <<process_variance, measurement_variance, estimate, error, fed>>

----------------------------------------------------------------------------
(* Bounds of the model *)

\* source widths and heights 1..MaxDim are enumerated (plus the HD sizes)
MaxDim == 24
\* target ratios num:den with num, den in 1..MaxAr (plus the named presets)
MaxAr == 3

----------------------------------------------------------------------------
(* Exact rational arithmetic standing for Python floats *)

Abs(x) == IF x < 0 THEN -x ELSE x

Max(a, b) == IF a >= b THEN a ELSE b

Min(a, b) == IF a <= b THEN a ELSE b

RECURSIVE GCD(_, _)
GCD(a, b) == IF b = 0 THEN a ELSE GCD(b, a % b)

\* the rational n/d in lowest terms with a positive denominator
Rat(n, d) ==
    LET s == IF d < 0 THEN -1 ELSE 1
        g == GCD(Abs(n), Abs(d))
    IN  [n |-> (s * n) \div g, d |-> (s * d) \div g]

RInt(i) == [n |-> i, d |-> 1]

RNeg(a) == [n |-> -a.n, d |-> a.d]

RAbs(a) == [n |-> Abs(a.n), d |-> a.d]

\* sums and comparisons go through the least common denominator and products
\* cancel crosswise first, so that intermediate values stay small
RAdd(a, b) ==
    LET g == GCD(a.d, b.d)
    IN  Rat(a.n * (b.d \div g) + b.n * (a.d \div g), (a.d \div g) * b.d)

RSub(a, b) == RAdd(a, RNeg(b))

RMul(a, b) ==
    LET g1 == GCD(Abs(a.n), b.d)
        g2 == GCD(Abs(b.n), a.d)
    IN  IF a.n = 0 \/ b.n = 0 THEN RInt(0)
        ELSE [n |-> (a.n \div g1) * (b.n \div g2),
              d |-> (a.d \div g2) * (b.d \div g1)]

\* a / b for b # 0
RDiv(a, b) ==
    RMul(a, IF b.n < 0 THEN [n |-> -b.d, d |-> -b.n] ELSE [n |-> b.d, d |-> b.n])

RLt(a, b) ==
    LET g == GCD(a.d, b.d)
    IN  a.n * (b.d \div g) < b.n * (a.d \div g)

RLe(a, b) ==
    LET g == GCD(a.d, b.d)
    IN  a.n * (b.d \div g) <= b.n * (a.d \div g)

\* int(x): truncation toward zero
Trunc(a) == IF a.n >= 0 THEN a.n \div a.d ELSE -((-a.n) \div a.d)

----------------------------------------------------------------------------
(* Aspect planner *)

\* aspect_tolerance = 0.15
aspect_tolerance == Rat(15, 100)

\* the named aspect-ratio presets accepted by /render-clip
ASPECT_RATIO_PRESETS ==
    [t \in {"9:16", "1:1", "4:5", "16:9"} |->
        CASE t = "9:16" -> <<9, 16>>
          [] t = "1:1"  -> <<1, 1>>
          [] t = "4:5"  -> <<4, 5>>
          [] t = "16:9" -> <<16, 9>>]

ALLOWED_ASPECT_RATIOS == DOMAIN ASPECT_RATIO_PRESETS

\* CalculateCropDimensions with the tolerance test written < instead of <=
CalculateCropDimensionsStrictTolerance(width, height, aspect_ratio) ==
    LET ar_w == aspect_ratio[1]
        ar_h == aspect_ratio[2]
        source_aspect == Rat(width, height)
        target_aspect == Rat(ar_w, ar_h)
        aspect_diff == RDiv(RAbs(RSub(source_aspect, target_aspect)), target_aspect)
        ideal_width == Trunc(Rat(height * ar_w, ar_h))
        ideal_height == Trunc(Rat(width * ar_h, ar_w))
    IN  IF width = ideal_width /\ height = ideal_height
        THEN [crop_width |-> width, crop_height |-> height,
              skip_face_detection |-> TRUE]
        ELSE IF RLt(aspect_diff, aspect_tolerance)
        THEN IF ideal_width <= width
             THEN [crop_width |-> ideal_width, crop_height |-> height,
                   skip_face_detection |-> TRUE]
             ELSE [crop_width |-> width, crop_height |-> ideal_height,
                   skip_face_detection |-> TRUE]
        ELSE IF RLt(source_aspect, target_aspect)
        THEN [crop_width |-> width, crop_height |-> ideal_height,
              skip_face_detection |-> TRUE]
        ELSE [crop_width |-> ideal_width, crop_height |-> height,
              skip_face_detection |-> FALSE]

\* CalculateCropDimensions asking for tracking when the source is narrower
\* than the target
CalculateCropDimensionsTrackNarrower(width, height, aspect_ratio) ==
    LET ar_w == aspect_ratio[1]
        ar_h == aspect_ratio[2]
        source_aspect == Rat(width, height)
        target_aspect == Rat(ar_w, ar_h)
        aspect_diff == RDiv(RAbs(RSub(source_aspect, target_aspect)), target_aspect)
        ideal_width == Trunc(Rat(height * ar_w, ar_h))
        ideal_height == Trunc(Rat(width * ar_h, ar_w))
    IN  IF width = ideal_width /\ height = ideal_height
        THEN [crop_width |-> width, crop_height |-> height,
              skip_face_detection |-> TRUE]
        ELSE IF RLe(aspect_diff, aspect_tolerance)
        THEN IF ideal_width <= width
             THEN [crop_width |-> ideal_width, crop_height |-> height,
                   skip_face_detection |-> TRUE]
             ELSE [crop_width |-> width, crop_height |-> ideal_height,
                   skip_face_detection |-> TRUE]
        ELSE IF RLt(source_aspect, target_aspect)
        THEN [crop_width |-> width, crop_height |-> ideal_height,
              skip_face_detection |-> FALSE]
        ELSE [crop_width |-> ideal_width, crop_height |-> height,
              skip_face_detection |-> FALSE]

\* CalculateCropDimensions whose near-match branch takes the ideal width
\* without testing that it fits the source
CalculateCropDimensionsNearMatchUnchecked(width, height, aspect_ratio) ==
    LET ar_w == aspect_ratio[1]
        ar_h == aspect_ratio[2]
        source_aspect == Rat(width, height)
        target_aspect == Rat(ar_w, ar_h)
        aspect_diff == RDiv(RAbs(RSub(source_aspect, target_aspect)), target_aspect)
        ideal_width == Trunc(Rat(height * ar_w, ar_h))
        ideal_height == Trunc(Rat(width * ar_h, ar_w))
    IN  IF width = ideal_width /\ height = ideal_height
        THEN [crop_width |-> width, crop_height |-> height,
              skip_face_detection |-> TRUE]
        ELSE IF RLe(aspect_diff, aspect_tolerance)
        THEN [crop_width |-> ideal_width, crop_height |-> height,
              skip_face_detection |-> TRUE]
        ELSE IF RLt(source_aspect, target_aspect)
        THEN [crop_width |-> width, crop_height |-> Trunc(Rat(width * ar_h, ar_w)),
              skip_face_detection |-> TRUE]
        ELSE [crop_width |-> Trunc(Rat(height * ar_w, ar_h)), crop_height |-> height,
              skip_face_detection |-> FALSE]

\* SmartClipper._calculate_crop_dimensions(width, height, aspect_ratio):
\* (crop_width, crop_height, skip_face_detection)
CalculateCropDimensions(width, height, aspect_ratio) ==
    LET ar_w == aspect_ratio[1]
        ar_h == aspect_ratio[2]
        source_aspect == Rat(width, height)
        target_aspect == Rat(ar_w, ar_h)
        aspect_diff == RDiv(RAbs(RSub(source_aspect, target_aspect)), target_aspect)
        ideal_width == Trunc(Rat(height * ar_w, ar_h))
        ideal_height == Trunc(Rat(width * ar_h, ar_w))
    IN  IF width = ideal_width /\ height = ideal_height
        THEN [crop_width |-> width, crop_height |-> height,
              skip_face_detection |-> TRUE]
        ELSE IF RLe(aspect_diff, aspect_tolerance)
        THEN IF ideal_width <= width
             THEN [crop_width |-> ideal_width, crop_height |-> height,
                   skip_face_detection |-> TRUE]
             ELSE [crop_width |-> width, crop_height |-> ideal_height,
                   skip_face_detection |-> TRUE]
        ELSE IF RLt(source_aspect, target_aspect)
        THEN [crop_width |-> width, crop_height |-> Trunc(Rat(width * ar_h, ar_w)),
              skip_face_detection |-> TRUE]
        ELSE [crop_width |-> Trunc(Rat(height * ar_w, ar_h)), crop_height |-> height,
              skip_face_detection |-> FALSE]

\* the crop size computed at the head of VideoAnalyzer.analyze
AnalyzeCropDimensions(width, height, aspect_ratio) ==
    LET ar_w == aspect_ratio[1]
        ar_h == aspect_ratio[2]
        crop_width == Trunc(Rat(height * ar_w, ar_h))
    IN  IF crop_width > width
        THEN [crop_width |-> width, crop_height |-> Trunc(Rat(width * ar_h, ar_w))]
        ELSE [crop_width |-> crop_width, crop_height |-> height]

----------------------------------------------------------------------------
(* Candidate scorer *)

\* A detection is [xmin, ymin, width, height, score]: the relative bounding box
\* (rationals) and the detector's score list (empty, or one confidence).
\*
\* A face's score is size*0.5 + center*0.3 + confidence*0.2 with
\* center = 1 - sqrt(dist2 / max2); it is kept exactly as [base, r], standing
\* for base - (3/10) * sqrt(r), base = size/2 + 3/10 + confidence/5, r = dist2/max2.
FaceScore(detection, width, height) ==
    LET bbox == detection
        confidence == IF Len(detection.score) > 0 THEN detection.score[1] ELSE Rat(1, 2)
        frame_center_x == Rat(width, 2)
        frame_center_y == Rat(height, 2)
        face_width == RMul(bbox.width, RInt(width))
        face_height == RMul(bbox.height, RInt(height))
        face_area == RMul(face_width, face_height)
        face_center_x == RMul(RAdd(bbox.xmin, RDiv(bbox.width, RInt(2))), RInt(width))
        face_center_y == RMul(RAdd(bbox.ymin, RDiv(bbox.height, RInt(2))), RInt(height))
        dx == RSub(face_center_x, frame_center_x)
        dy == RSub(face_center_y, frame_center_y)
        dist2 == RAdd(RMul(dx, dx), RMul(dy, dy))
        max2 == RAdd(RMul(frame_center_x, frame_center_x),
                     RMul(frame_center_y, frame_center_y))
        size_score == RDiv(face_area, RInt(width * height))
    IN  [base |-> RAdd(RAdd(RMul(size_score, Rat(1, 2)), Rat(3, 10)),
                       RMul(confidence, Rat(2, 10))),
         r |-> RDiv(dist2, max2)]

\* best_score = -1
InitialBestScore == [base |-> RInt(-1), r |-> RInt(0)]

\* s > t for scores kept as [base, r]:
\* s.base - (3/10) sqrt(s.r) > t.base - (3/10) sqrt(t.r), decided exactly:
\* with A = (s.base - t.base) * 10/3 it is A + sqrt(t.r) > sqrt(s.r)
ScoreGT(s, t) ==
    LET A == RMul(RSub(s.base, t.base), Rat(10, 3))
        A2 == RMul(A, A)
        zero == RInt(0)
        lhsPositive == \/ RLt(zero, A)
                       \/ A.n = 0 /\ RLt(zero, t.r)
                       \/ RLt(A, zero) /\ RLt(A2, t.r)
        B == RSub(RSub(s.r, t.r), A2)
        L2P == RMul(RMul(RInt(4), A2), t.r)
        B2 == RMul(B, B)
    IN  /\ lhsPositive
        /\ IF RLe(zero, A)
           THEN RLt(B, zero) \/ RLt(B2, L2P)
           ELSE RLt(B, zero) /\ RLt(L2P, B2)

\* SelectLoop with the comparison written >= instead of >: on equal scores the
\* later face replaces the earlier one
RECURSIVE SelectLoopLastWins(_, _, _, _, _, _)
SelectLoopLastWins(detections, width, height, i, best_face, best_score) ==
    IF i > Len(detections) THEN best_face
    ELSE LET score == FaceScore(detections[i], width, height)
         IN  IF ~ScoreGT(best_score, score)
             THEN SelectLoopLastWins(detections, width, height, i + 1, i, score)
             ELSE SelectLoopLastWins(detections, width, height, i + 1, best_face, best_score)

\* the loop of _select_speaking_face over detections[i..]: the index of the
\* best face so far (0 is None) and its score
RECURSIVE SelectLoop(_, _, _, _, _, _)
SelectLoop(detections, width, height, i, best_face, best_score) ==
    IF i > Len(detections) THEN best_face
    ELSE LET score == FaceScore(detections[i], width, height)
         IN  IF ScoreGT(score, best_score)
             THEN SelectLoop(detections, width, height, i + 1, i, score)
             ELSE SelectLoop(detections, width, height, i + 1, best_face, best_score)

\* VideoAnalyzer._select_speaking_face: the index in detections of the face
\* returned, 0 when it returns None
SelectSpeakingFace(detections, width, height) ==
    IF Len(detections) = 0 THEN 0
    ELSE IF Len(detections) = 1 THEN 1
    ELSE SelectLoop(detections, width, height, 1, 0, InitialBestScore)

\* SmartClipper._select_speaking_face: the same code, kept as a second copy
ClipperSelectSpeakingFace(detections, width, height) ==
    IF Len(detections) = 0 THEN 0
    ELSE IF Len(detections) = 1 THEN 1
    ELSE SelectLoop(detections, width, height, 1, 0, InitialBestScore)

----------------------------------------------------------------------------
(* Windowed moving-average smoothers *)

\* the default of VideoAnalyzer._smooth_positions(window_size=15)
DefaultWindowSize == 15
\* the default of SmartClipper(smoothing_window=30)
DefaultSmoothingWindow == 30

\* the sum of a[lo..hi] (rationals) for 1 <= lo <= hi <= Len(a), by halves
RECURSIVE RSumRange(_, _, _)
RSumRange(a, lo, hi) ==
    IF lo = hi THEN a[lo]
    ELSE LET mid == (lo + hi) \div 2
         IN  RAdd(RSumRange(a, lo, mid), RSumRange(a, mid + 1, hi))

\* the sum of a[lo..hi] (rationals), indices outside 1..Len(a) contributing nothing
RSum(a, lo, hi) ==
    LET l == Max(lo, 1)
        h == Min(hi, Len(a))
    IN  IF l > h THEN RInt(0) ELSE RSumRange(a, l, h)

\* the same sums for a sequence of integers
RECURSIVE ISumRange(_, _, _)
ISumRange(a, lo, hi) ==
    IF lo = hi THEN a[lo]
    ELSE LET mid == (lo + hi) \div 2
         IN  ISumRange(a, lo, mid) + ISumRange(a, mid + 1, hi)

ISum(a, lo, hi) ==
    LET l == Max(lo, 1)
        h == Min(hi, Len(a))
    IN  IF l > h THEN 0 ELSE ISumRange(a, l, h)

\* np.mean of the slice a[lo..hi] cut to the sequence (never empty where used)
RMean(a, lo, hi) ==
    LET l == Max(lo, 1)
        h == Min(hi, Len(a))
    IN  RDiv(RSum(a, l, h), RInt(h - l + 1))

\* np.convolve(a, np.ones(w) / w, mode='same'): max(len(a), w) values, value i
\* (from 1) being value i + n_right of the full, zero-padded convolution, where
\* n_right = n - n \div 2 - 1 for n the length of the shorter operand
ConvolveSame(a, w) ==
    LET n1 == Max(Len(a), w)
        n2 == Min(Len(a), w)
        n_right == n2 - (n2 \div 2) - 1
    IN  [i \in 1 .. n1 |->
            RDiv(RSum(a, i + n_right - w + 1, i + n_right), RInt(w))]

\* the same convolution of a sequence of integers
IntConvolveSame(a, w) ==
    LET n1 == Max(Len(a), w)
        n2 == Min(Len(a), w)
        n_right == n2 - (n2 \div 2) - 1
    IN  [i \in 1 .. n1 |-> Rat(ISum(a, i + n_right - w + 1, i + n_right), w)]

\* the edge loop of _smooth_positions from step i (from 0) on: two writes a step
RECURSIVE FixEdges(_, _, _, _)
FixEdges(smoothed, positions, w, i) ==
    IF i >= w \div 2 THEN smoothed
    ELSE LET n == Len(positions)
             k == i + (w \div 2) + 1
             first == [smoothed EXCEPT ![i + 1] = RMean(positions, 1, k)]
             both == [first EXCEPT ![Len(smoothed) - i] = RMean(positions, n - k + 1, n)]
         IN  FixEdges(both, positions, w, i + 1)

\* VideoAnalyzer._smooth_positions(positions, window_size); np.convolve raises
\* ValueError on an empty sequence
SmoothPositions(positions, window_size) ==
    LET w == IF Len(positions) < window_size
             THEN Max(3, Len(positions) \div 2)
             ELSE window_size
    IN  IF Len(positions) = 0
        THEN [kind |-> "raise", exception |-> "ValueError"]
        ELSE [kind |-> "return",
              smoothed |-> FixEdges(ConvolveSame(positions, w), positions, w, 0)]

\* SmartClipper._smooth_coordinates with smoothing_window = w: integer
\* coordinates in, integer coordinates out (astype(int) truncates)
SmoothCoordinates(coordinates, w) ==
    IF Len(coordinates) < w THEN coordinates
    ELSE LET smoothed == IntConvolveSame(coordinates, w)
         IN  [i \in 1 .. Len(smoothed) |-> Trunc(smoothed[i])]

----------------------------------------------------------------------------
(* Recursive (Kalman) smoother *)

\* KalmanUpdate with the gain computed as prediction_error / measurement_variance
KalmanUpdateUnnormalisedGain(k, measurement) ==
    IF k.estimate = <<>>
    THEN [estimate |-> <<measurement>>, error |-> k.error, out |-> measurement]
    ELSE LET prediction == k.estimate[1]
             prediction_error == RAdd(k.error, k.process_variance)
             kalman_gain == RDiv(prediction_error, k.measurement_variance)
             new_estimate == RAdd(prediction,
                                  RMul(kalman_gain, RSub(measurement, prediction)))
         IN  [estimate |-> <<new_estimate>>,
              error |-> RMul(RSub(RInt(1), kalman_gain), prediction_error),
              out |-> new_estimate]

\* KalmanUpdate with the predicted error kept as the new error (the gain is
\* not applied to it)
KalmanUpdateKeepsPredictionError(k, measurement) ==
    IF k.estimate = <<>>
    THEN [estimate |-> <<measurement>>, error |-> k.error, out |-> measurement]
    ELSE LET prediction == k.estimate[1]
             prediction_error == RAdd(k.error, k.process_variance)
             kalman_gain == RDiv(prediction_error,
                                 RAdd(prediction_error, k.measurement_variance))
             new_estimate == RAdd(prediction,
                                  RMul(kalman_gain, RSub(measurement, prediction)))
         IN  [estimate |-> <<new_estimate>>,
              error |-> prediction_error,
              out |-> new_estimate]

\* KalmanSmoother.update(measurement) on the smoother k = [estimate, error,
\* process_variance, measurement_variance]: the new estimate and error and the
\* value returned
KalmanUpdate(k, measurement) ==
    IF k.estimate = <<>>
    THEN [estimate |-> <<measurement>>, error |-> k.error, out |-> measurement]
    ELSE LET prediction == k.estimate[1]
             prediction_error == RAdd(k.error, k.process_variance)
             kalman_gain == RDiv(prediction_error,
                                 RAdd(prediction_error, k.measurement_variance))
             new_estimate == RAdd(prediction,
                                  RMul(kalman_gain, RSub(measurement, prediction)))
         IN  [estimate |-> <<new_estimate>>,
              error |-> RMul(RSub(RInt(1), kalman_gain), prediction_error),
              out |-> new_estimate]

\* KalmanSmoothLoop on a smoother that forgets its estimate and error when a
\* smooth call begins
RECURSIVE KalmanSmoothLoopReseeded(_, _, _, _)
KalmanSmoothLoopReseeded(k, positions, i, smoothed) ==
    IF i > Len(positions)
    THEN [estimate |-> k.estimate, error |-> k.error, smoothed |-> smoothed]
    ELSE LET k0 == IF i = 1 THEN [k EXCEPT !.estimate = <<>>, !.error = RInt(1)] ELSE k
             u == KalmanUpdate(k0, positions[i])
         IN  KalmanSmoothLoopReseeded([k0 EXCEPT !.estimate = u.estimate,
                                                 !.error = u.error],
                                      positions, i + 1, Append(smoothed, u.out))

\* the loop of KalmanSmoother.smooth over positions[i..], smoothed holding the
\* values appended so far: the smoother's final estimate and error, and smoothed
RECURSIVE KalmanSmoothLoop(_, _, _, _)
KalmanSmoothLoop(k, positions, i, smoothed) ==
    IF i > Len(positions)
    THEN [estimate |-> k.estimate, error |-> k.error, smoothed |-> smoothed]
    ELSE LET u == KalmanUpdate(k, positions[i])
         IN  KalmanSmoothLoop([k EXCEPT !.estimate = u.estimate, !.error = u.error],
                              positions, i + 1, Append(smoothed, u.out))

----------------------------------------------------------------------------
(* Whole-video analysis: sampler, smoother, interpolator *)

\* DetectFaceCenter with the left border as the position of a frame without
\* a face
DetectFaceCenterZeroFallback(detections, width, height) ==
    LET best_face == SelectSpeakingFace(detections, width, height)
    IN  IF Len(detections) > 0 /\ best_face # 0
        THEN LET bbox == detections[best_face]
             IN  RMul(RAdd(bbox.xmin, RDiv(bbox.width, RInt(2))), RInt(width))
        ELSE RInt(0)

\* VideoAnalyzer._detect_face_center on a frame for which the detector reports
\* detections: the x of the chosen face's centre, or the frame centre
DetectFaceCenter(detections, width, height) ==
    LET best_face == SelectSpeakingFace(detections, width, height)
    IN  IF Len(detections) > 0 /\ best_face # 0
        THEN LET bbox == detections[best_face]
             IN  RMul(RAdd(bbox.xmin, RDiv(bbox.width, RInt(2))), RInt(width))
        ELSE Rat(width, 2)

\* np.interp(x, xp, fp) at one x, for increasing xp: the end values outside
\* xp, the line through the two neighbouring samples inside
Interp(x, xp, fp) ==
    IF x <= xp[1] THEN fp[1]
    ELSE IF x >= xp[Len(xp)] THEN fp[Len(xp)]
    ELSE LET j == CHOOSE j \in 1 .. (Len(xp) - 1) : xp[j] <= x /\ x < xp[j + 1]
             slope == RDiv(RSub(fp[j + 1], fp[j]), RInt(xp[j + 1] - xp[j]))
         IN  RAdd(RMul(slope, RInt(x - xp[j])), fp[j])

\* VideoAnalyzer._generate_crop_data; np.interp raises ValueError when there is
\* no sample or when xp and fp differ in length
GenerateCropData(smoothed_centers, frame_numbers, total_frames, width, height, crop_width, crop_height) ==
    IF Len(frame_numbers) = 0 \/ Len(smoothed_centers) # Len(frame_numbers)
    THEN [kind |-> "raise", exception |-> "ValueError"]
    ELSE [kind |-> "return",
          crop_data |->
            [f \in 1 .. total_frames |->
                LET frame_num == f - 1
                    center_x == Interp(frame_num, frame_numbers, smoothed_centers)
                    crop_x == Trunc(RSub(center_x, Rat(crop_width, 2)))
                IN  [frame |-> frame_num,
                     x |-> Max(0, Min(crop_x, width - crop_width)),
                     y |-> 0,
                     width |-> crop_width,
                     height |-> crop_height,
                     center_x |-> center_x]]]

\* SampleFrames with a detector failure swallowed: the frame centre stands in
\* for the failing frame and sampling goes on
RECURSIVE SampleFramesSkipFailure(_, _, _, _, _, _)
SampleFramesSkipFailure(video, sample_rate, frame_count, face_centers, frame_numbers, events) ==
    IF frame_count >= video.frames
    THEN [raised |-> "none", face_centers |-> face_centers,
          frame_numbers |-> frame_numbers, events |-> events]
    ELSE IF frame_count % sample_rate = 0
    THEN LET failed == Len(face_centers) + 1 > Len(video.detections)
             detections == IF failed THEN <<>>
                           ELSE video.detections[Len(face_centers) + 1]
             center_x == IF failed THEN Rat(video.width, 2)
                         ELSE IF Len(detections) > 0
                         THEN LET bbox == detections[1]
                              IN  RMul(RAdd(bbox.xmin, RDiv(bbox.width, RInt(2))),
                                       RInt(video.width))
                         ELSE Rat(video.width, 2)
         IN  SampleFramesSkipFailure(video, sample_rate, frame_count + 1,
                Append(face_centers, center_x),
                Append(frame_numbers, frame_count),
                events \o <<[ev |-> "detect", frame |-> frame_count,
                             detections |-> detections,
                             raised |-> IF failed THEN video.detector_error ELSE "none"],
                            [ev |-> "_detect_face_center", center_x |-> center_x]>>)
    ELSE SampleFramesSkipFailure(video, sample_rate, frame_count + 1,
                                 face_centers, frame_numbers, events)

\* SampleFrames taking the last frame of every stride instead of the first
RECURSIVE SampleFramesStrideEnd(_, _, _, _, _, _)
SampleFramesStrideEnd(video, sample_rate, frame_count, face_centers, frame_numbers, events) ==
    IF frame_count >= video.frames
    THEN [raised |-> "none", face_centers |-> face_centers,
          frame_numbers |-> frame_numbers, events |-> events]
    ELSE IF (frame_count + 1) % sample_rate = 0
    THEN IF Len(face_centers) + 1 > Len(video.detections)
         THEN [raised |-> video.detector_error, face_centers |-> face_centers,
               frame_numbers |-> frame_numbers,
               events |-> Append(events, [ev |-> "detect", frame |-> frame_count,
                                          detections |-> <<>>,
                                          raised |-> video.detector_error])]
         ELSE
         LET detections == video.detections[Len(face_centers) + 1]
             center_x == IF Len(detections) > 0
                         THEN LET bbox == detections[1]
                              IN  RMul(RAdd(bbox.xmin, RDiv(bbox.width, RInt(2))),
                                       RInt(video.width))
                         ELSE Rat(video.width, 2)
         IN  SampleFramesStrideEnd(video, sample_rate, frame_count + 1,
                Append(face_centers, center_x),
                Append(frame_numbers, frame_count),
                events \o <<[ev |-> "detect", frame |-> frame_count,
                             detections |-> detections, raised |-> "none"],
                            [ev |-> "_detect_face_center", center_x |-> center_x]>>)
    ELSE SampleFramesStrideEnd(video, sample_rate, frame_count + 1,
                               face_centers, frame_numbers, events)

\* a call of the detector (face_detection.process) on frame number frame: it
\* reports detections, or raises
DetectEvent(frame, detections, raised) ==
    [ev |-> "detect", frame |-> frame, detections |-> detections, raised |-> raised]

\* the sampling loop of VideoAnalyzer.analyze from frame frame_count on, over a
\* video of video.frames readable frames whose sampled frames show the detector
\* video.detections (one entry per sampled frame, in order); on a sampled frame
\* beyond that list the detector raises video.detector_error, which leaves the
\* loop and analyze.  The result: face_centers, frame_numbers, the calls made
\* and the exception raised, if any
RECURSIVE SampleFrames(_, _, _, _, _, _)
SampleFrames(video, sample_rate, frame_count, face_centers, frame_numbers, events) ==
    IF frame_count >= video.frames
    THEN [raised |-> "none", face_centers |-> face_centers,
          frame_numbers |-> frame_numbers, events |-> events]
    ELSE IF frame_count % sample_rate = 0
    THEN IF Len(face_centers) + 1 > Len(video.detections)
         THEN [raised |-> video.detector_error, face_centers |-> face_centers,
               frame_numbers |-> frame_numbers,
               events |-> Append(events, DetectEvent(frame_count, <<>>,
                                                     video.detector_error))]
         ELSE
         LET detections == video.detections[Len(face_centers) + 1]
             center_x == DetectFaceCenter(detections, video.width, video.height)
         IN  SampleFrames(video, sample_rate, frame_count + 1,
                          Append(face_centers, center_x),
                          Append(frame_numbers, frame_count),
                          events \o <<DetectEvent(frame_count, detections, "none"),
                                      [ev |-> "_detect_face_center",
                                       center_x |-> center_x]>>)
    ELSE SampleFrames(video, sample_rate, frame_count + 1,
                      face_centers, frame_numbers, events)

\* VideoAnalyzer.analyze(video_path, aspect_ratio) on a VideoAnalyzer with the
\* given sample_rate: what it returns or raises, and the calls it made (the
\* capture, the detector on each sampled frame, _generate_crop_data)
Analyze(video, aspect_ratio, sample_rate) ==
    IF ~video.opened
    THEN [result |-> [kind |-> "raise", exception |-> "ValueError"],
          log |-> <<[ev |-> "capture_open"]>>]
    ELSE
    LET width == video.width
        height == video.height
        total_frames == video.total_frames
        duration == IF video.fps > 0 THEN Rat(total_frames, video.fps) ELSE RInt(0)
        crop == AnalyzeCropDimensions(width, height, aspect_ratio)
        sampled == SampleFrames(video, sample_rate, 0, <<>>, <<>>, <<>>)
        events == <<[ev |-> "capture_open"]>> \o sampled.events
                     \o <<[ev |-> "capture_release"], [ev |-> "_smooth_positions"]>>
        smoothed == SmoothPositions(sampled.face_centers, DefaultWindowSize)
        generated == GenerateCropData(smoothed.smoothed, sampled.frame_numbers,
                                      total_frames, width, height,
                                      crop.crop_width, crop.crop_height)
        generate == [ev |-> "_generate_crop_data",
                     smoothed_centers |-> smoothed.smoothed,
                     frame_numbers |-> sampled.frame_numbers,
                     total_frames |-> total_frames]
    IN  IF sampled.raised # "none"
        THEN [result |-> [kind |-> "raise", exception |-> sampled.raised],
              log |-> <<[ev |-> "capture_open"]>> \o sampled.events]
        ELSE IF smoothed.kind = "raise" THEN [result |-> smoothed, log |-> events]
        ELSE IF generated.kind = "raise"
        THEN [result |-> generated, log |-> Append(events, generate)]
        ELSE [result |->
                [kind |-> "return",
                 video_metadata |->
                    [width |-> width, height |-> height, fps |-> video.fps,
                     total_frames |-> total_frames, duration |-> duration,
                     crop_width |-> crop.crop_width,
                     crop_height |-> crop.crop_height],
                 crop_data |-> generated.crop_data,
                 smoothed_centers |-> smoothed.smoothed],
              log |-> Append(events, generate)]

----------------------------------------------------------------------------
(* Clip extraction: display size, tracking, smoothing, render strategy *)

\* GetDisplayDimensions with the rotation metadata ignored
GetDisplayDimensionsAsStored(probe) == <<probe.width, probe.height>>

\* SmartClipper._get_display_dimensions from what ffprobe reports
GetDisplayDimensions(probe) ==
    IF probe.rotation \in {90, 270}
    THEN <<probe.height, probe.width>>
    ELSE <<probe.width, probe.height>>

\* ClipperDetectFaceCenter without the constraint to the frame boundaries
ClipperDetectFaceCenterUnclamped(detections, width, height, crop_width) ==
    LET best_face == ClipperSelectSpeakingFace(detections, width, height)
    IN  IF Len(detections) > 0 /\ best_face # 0
        THEN LET bboxC == detections[best_face]
                 face_center_x ==
                    Trunc(RMul(RAdd(bboxC.xmin, RDiv(bboxC.width, RInt(2))), RInt(width)))
             IN  face_center_x - (crop_width \div 2)
        ELSE IF crop_width >= width THEN 0
        ELSE (width - crop_width) \div 2

\* ClipperDetectFaceCenter with the window put at the left edge of the face
\* instead of around its centre
ClipperDetectFaceCenterFromLeftEdge(detections, width, height, crop_width) ==
    LET best_face == ClipperSelectSpeakingFace(detections, width, height)
    IN  IF Len(detections) > 0 /\ best_face # 0
        THEN LET bboxC == detections[best_face]
                 face_left_x == Trunc(RMul(bboxC.xmin, RInt(width)))
                 crop_x == face_left_x - (crop_width \div 2)
             IN  Max(0, Min(crop_x, width - crop_width))
        ELSE IF crop_width >= width THEN 0
        ELSE (width - crop_width) \div 2

\* SmartClipper._detect_face_center on a frame for which the detector reports
\* detections: the left edge of the crop window
ClipperDetectFaceCenter(detections, width, height, crop_width) ==
    LET best_face == ClipperSelectSpeakingFace(detections, width, height)
    IN  IF Len(detections) > 0 /\ best_face # 0
        THEN LET bboxC == detections[best_face]
                 face_center_x ==
                    Trunc(RMul(RAdd(bboxC.xmin, RDiv(bboxC.width, RInt(2))), RInt(width)))
                 crop_x == face_center_x - (crop_width \div 2)
             IN  Max(0, Min(crop_x, width - crop_width))
        ELSE IF crop_width >= width THEN 0
        ELSE (width - crop_width) \div 2

\* the loop of SmartClipper._track_faces_in_range from current_frame on; the
\* capture has video.frames frames and video.detections lists what the detector
\* reports on the first of them; on a frame beyond that list the detector
\* raises video.detector_error, which leaves the loop
RECURSIVE TrackLoop(_, _, _, _, _, _, _, _)
TrackLoop(video, width, height, crop_width, current_frame, end_frame, face_centers, events) ==
    IF current_frame >= end_frame \/ current_frame >= video.frames
    THEN [raised |-> "none", face_centers |-> face_centers, events |-> events]
    ELSE IF current_frame + 1 > Len(video.detections)
    THEN [raised |-> video.detector_error, face_centers |-> face_centers,
          events |-> Append(events, DetectEvent(current_frame, <<>>,
                                                video.detector_error))]
    ELSE LET detections == video.detections[current_frame + 1]
             center_x == ClipperDetectFaceCenter(detections, width, height, crop_width)
         IN  TrackLoop(video, width, height, crop_width, current_frame + 1, end_frame,
                       Append(face_centers, center_x),
                       events \o <<DetectEvent(current_frame, detections, "none"),
                                   [ev |-> "_detect_face_center", x |-> center_x]>>)

\* the frame range SmartClipper._track_faces_in_range computes from the clip's
\* times and the capture's frame rate (both floats): int() of the products
FrameRange(start_time, end_time, fps) ==
    [start_frame |-> Trunc(RMul(start_time, fps)),
     end_frame |-> Trunc(RMul(end_time, fps))]

\* TrackFacesInRange with the tracking pass run a second time over the same
\* frames when the first pass is over
TrackFacesInRangeSecondPass(video, start_time, end_time, width, height, crop_width) ==
    IF ~video.opened
    THEN [kind |-> "raise", exception |-> "ValueError",
          events |-> <<[ev |-> "capture_open"]>>]
    ELSE LET fps == RInt(video.fps)
             range == FrameRange(start_time, end_time, fps)
             first == TrackLoop(video, width, height, crop_width,
                                range.start_frame, range.end_frame, <<>>, <<>>)
             tracked == TrackLoop(video, width, height, crop_width,
                                  range.start_frame, range.end_frame, <<>>, first.events)
         IN  IF tracked.raised # "none"
             THEN [kind |-> "raise", exception |-> tracked.raised,
                   events |-> <<[ev |-> "capture_open"]>> \o tracked.events]
             ELSE [kind |-> "return", face_centers |-> tracked.face_centers,
                   events |-> <<[ev |-> "capture_open"]>> \o tracked.events
                                 \o <<[ev |-> "capture_release"]>>]

\* SmartClipper._track_faces_in_range
TrackFacesInRange(video, start_time, end_time, width, height, crop_width) ==
    IF ~video.opened
    THEN [kind |-> "raise", exception |-> "ValueError",
          events |-> <<[ev |-> "capture_open"]>>]
    ELSE LET fps == RInt(video.fps)
             range == FrameRange(start_time, end_time, fps)
             start_frame == range.start_frame
             end_frame == range.end_frame
             tracked == TrackLoop(video, width, height, crop_width,
                                  start_frame, end_frame, <<>>, <<>>)
         IN  IF tracked.raised # "none"
             THEN [kind |-> "raise", exception |-> tracked.raised,
                   events |-> <<[ev |-> "capture_open"]>> \o tracked.events]
             ELSE [kind |-> "return", face_centers |-> tracked.face_centers,
                   events |-> <<[ev |-> "capture_open"]>> \o tracked.events
                                 \o <<[ev |-> "capture_release"]>>]

\* MeanInt with the mean rounded up to the next integer
MeanIntCeiling(coords) == (ISum(coords, 1, Len(coords)) + Len(coords) - 1) \div Len(coords)

\* int(np.mean(coords)) for a non-empty list of integers
MeanInt(coords) == Trunc(Rat(ISum(coords, 1, Len(coords)), Len(coords)))

\* the encoder run of SmartClipper._render_static_crop: one fixed crop window
StaticCropEvent(x, y, width, height) ==
    [ev |-> "ffmpeg", renderer |-> "_render_static_crop",
     x |-> x, y |-> y, width |-> width, height |-> height]

\* SmartClipper._render_dynamic_crop: the encoder run it ends in
RenderDynamicCrop(x_coords, width, height) ==
    IF Len(x_coords) > 1
    THEN StaticCropEvent(MeanInt(x_coords), 0, width, height)
    ELSE StaticCropEvent(IF Len(x_coords) > 0 THEN x_coords[1] ELSE 0, 0, width, height)

\* SmartClipper._render_clip; ffmpeg_ok tells whether the encoder run succeeds
RenderClip(start_time, end_time, smoothed_coords, crop_mode, width, height, crop_width, crop_height, ffmpeg_ok) ==
    LET center_y == Max(0, (height - crop_height) \div 2)
        encoder == IF crop_mode = "static"
                   THEN StaticCropEvent(MeanInt(smoothed_coords), center_y,
                                        crop_width, crop_height)
                   ELSE RenderDynamicCrop(smoothed_coords, crop_width, crop_height)
        events == <<[ev |-> "capture_open"], [ev |-> "capture_release"], encoder>>
    IN  IF ffmpeg_ok
        THEN [result |-> [kind |-> "return", success |-> TRUE,
                          crop_mode |-> crop_mode,
                          duration |-> RSub(end_time, start_time),
                          crop_dimensions |-> [width |-> crop_width,
                                               height |-> crop_height],
                          start_time |-> start_time, end_time |-> end_time],
              log |-> events]
        ELSE [result |-> [kind |-> "return", success |-> FALSE,
                          error |-> "FFmpeg rendering failed"],
              log |-> events]

\* SmartClipper.create_clip on a clipper with the given smoothing_window: what
\* it returns or raises, and the calls it made
CreateClip(smoothing_window, video, start_time, end_time, crop_mode, aspect_ratio, ffmpeg_ok) ==
    IF ~video.exists
    THEN [result |-> [kind |-> "raise", exception |-> "FileNotFoundError"],
          log |-> <<>>]
    ELSE IF RLe(end_time, start_time)
    THEN [result |-> [kind |-> "raise", exception |-> "ValueError"], log |-> <<>>]
    ELSE
    LET display == GetDisplayDimensions(video.probe)
        width == display[1]
        height == display[2]
        crop == CalculateCropDimensions(width, height, aspect_ratio)
        crop_width == crop.crop_width
        crop_height == crop.crop_height
        center_x == Max(0, (width - crop_width) \div 2)
        tracked == IF crop.skip_face_detection
                   THEN [kind |-> "return", face_centers |-> [i \in 1 .. 100 |-> center_x],
                         events |-> <<>>]
                   ELSE TrackFacesInRange(video, start_time, end_time,
                                          width, height, crop_width)
        planned == <<[ev |-> "ffprobe"],
                     [ev |-> "_calculate_crop_dimensions",
                      width |-> width, height |-> height]>>
    IN  IF tracked.kind = "raise"
        THEN [result |-> [kind |-> "raise", exception |-> tracked.exception],
              log |-> planned \o tracked.events]
        ELSE
        LET crop_coordinates == IF Len(tracked.face_centers) = 0
                                THEN [i \in 1 .. 100 |-> center_x]
                                ELSE tracked.face_centers
            smoothed_coords == SmoothCoordinates(crop_coordinates, smoothing_window)
            rendered == RenderClip(start_time, end_time, smoothed_coords, crop_mode,
                                   width, height, crop_width, crop_height, ffmpeg_ok)
        IN  [result |-> rendered.result,
             log |-> planned \o tracked.events
                       \o <<[ev |-> "_smooth_coordinates", coords |-> smoothed_coords]>>
                       \o rendered.log]

----------------------------------------------------------------------------
(* Render stage of the analysis path *)

\* VideoRenderer.render(input_path, crop_data, output_path); ffmpeg_ok tells
\* whether the encoder run of _render_simple_crop succeeds
Render(crop_data, ffmpeg_ok) ==
    IF Len(crop_data) = 0
    THEN [result |-> [kind |-> "raise", exception |-> "ValueError",
                      message |-> "Crop data is empty"],
          log |-> <<>>]
    ELSE LET crop_width == crop_data[1].width
             crop_height == crop_data[1].height
             avg_x == MeanInt([i \in 1 .. Len(crop_data) |-> crop_data[i].x])
             avg_y == crop_data[1].y
             encoder == [ev |-> "ffmpeg", renderer |-> "_render_simple_crop",
                         x |-> avg_x, y |-> avg_y,
                         width |-> crop_width, height |-> crop_height]
         IN  IF ffmpeg_ok
             THEN [result |-> [kind |-> "return", success |-> TRUE,
                               crop_width |-> crop_width,
                               crop_height |-> crop_height,
                               method |-> "simple_crop"],
                   log |-> <<encoder>>]
             ELSE [result |-> [kind |-> "return", success |-> FALSE,
                               error |-> "FFmpeg rendering failed"],
                   log |-> <<encoder>>]

\* VideoRenderer.render_dynamic_crop: it makes the temporary directory, reads
\* crop_data[0] (IndexError on an empty list) and hands over to render
RendererRenderDynamicCrop(crop_data, ffmpeg_ok) ==
    IF Len(crop_data) = 0
    THEN [result |-> [kind |-> "raise", exception |-> "IndexError",
                      message |-> "list index out of range"],
          log |-> <<[ev |-> "makedirs"]>>]
    ELSE LET rendered == Render(crop_data, ffmpeg_ok)
         IN  [result |-> rendered.result,
              log |-> <<[ev |-> "makedirs"]>> \o rendered.log]

\* AdvancedRenderer.render_precise(input_path, crop_data, output_path): the
\* capture has video.frames readable frames; crop_data[0] of an empty list
\* raises IndexError before the try block is entered
RenderPrecise(video, crop_data) ==
    IF ~video.opened
    THEN [result |-> [kind |-> "raise", exception |-> "ValueError"],
          log |-> <<[ev |-> "capture_open"]>>]
    ELSE IF Len(crop_data) = 0
    THEN [result |-> [kind |-> "raise", exception |-> "IndexError"],
          log |-> <<[ev |-> "capture_open"]>>]
    ELSE LET processed_frames == Min(video.frames, Len(crop_data))
             writes == [i \in 1 .. processed_frames |->
                           [ev |-> "write", frame |-> i - 1,
                            x |-> crop_data[i].x, y |-> crop_data[i].y,
                            width |-> crop_data[i].width,
                            height |-> crop_data[i].height]]
         IN  [result |-> [kind |-> "return", success |-> TRUE,
                          processed_frames |-> processed_frames,
                          method |-> "frame_by_frame"],
              log |-> <<[ev |-> "capture_open"], [ev |-> "writer_open"]>> \o writes
                        \o <<[ev |-> "capture_release"], [ev |-> "writer_release"]>>]

----------------------------------------------------------------------------
(* HTTP handlers *)

\* VideoAnalyzer(sample_rate=5), the analyzer the service constructs
DefaultSampleRate == 5

\* analyze(aspect_ratio=(9, 16))
DefaultAspectRatio == <<9, 16>>

\* raise HTTPException(status_code, ...)
HTTPException(status_code) ==
    [kind |-> "raise", exception |-> "HTTPException", status_code |-> status_code]

\* the except clause of analyze_video: every exception raised in the try block,
\* an HTTPException raised there included, leaves as HTTPException(500)
AnalyzeVideoExcept(raised) == HTTPException(500)

\* POST /analyze-video
AnalyzeVideo(video) ==
    IF ~video.exists
    THEN [result |-> AnalyzeVideoExcept(HTTPException(404)), log |-> <<>>]
    ELSE LET analysed == Analyze(video, DefaultAspectRatio, DefaultSampleRate)
         IN  IF analysed.result.kind = "raise"
             THEN [result |-> AnalyzeVideoExcept(analysed.result), log |-> analysed.log]
             ELSE [result |-> [kind |-> "response", status_code |-> 200,
                               body |-> [video_metadata |-> analysed.result.video_metadata,
                                         crop_data |-> analysed.result.crop_data,
                                         smoothed_centers |->
                                            analysed.result.smoothed_centers]],
                   log |-> analysed.log]

\* the except clauses of render_clip, in order: FileNotFoundError, ValueError,
\* Exception (which an HTTPException raised in the try block is)
RenderClipExcept(raised) ==
    IF raised.exception = "FileNotFoundError" THEN HTTPException(404)
    ELSE IF raised.exception = "ValueError" THEN HTTPException(400)
    ELSE HTTPException(500)

\* RenderClipHandler without the check of crop_mode
RenderClipHandlerNoCropModeCheck(request, video, ffmpeg_ok) ==
    IF ~video.exists
    THEN [result |-> RenderClipExcept(HTTPException(404)), log |-> <<>>]
    ELSE IF RLt(request.start_time, RInt(0))
    THEN [result |-> RenderClipExcept(HTTPException(400)), log |-> <<>>]
    ELSE IF RLe(request.end_time, request.start_time)
    THEN [result |-> RenderClipExcept(HTTPException(400)), log |-> <<>>]
    ELSE IF request.aspect_ratio \notin ALLOWED_ASPECT_RATIOS
    THEN [result |-> RenderClipExcept(HTTPException(400)), log |-> <<>>]
    ELSE LET ar_tuple == ASPECT_RATIO_PRESETS[request.aspect_ratio]
             clip == CreateClip(DefaultSmoothingWindow, video, request.start_time,
                                request.end_time, request.crop_mode, ar_tuple,
                                ffmpeg_ok)
         IN  IF clip.result.kind = "raise"
             THEN [result |-> RenderClipExcept(clip.result), log |-> clip.log]
             ELSE [result |-> [kind |-> "response", status_code |-> 200,
                               body |-> [clip.result EXCEPT !.kind = "RenderClipResponse"]],
                   log |-> clip.log]

\* POST /render-clip; the service's clipper is SmartClipper()
RenderClipHandler(request, video, ffmpeg_ok) ==
    IF ~video.exists
    THEN [result |-> RenderClipExcept(HTTPException(404)), log |-> <<>>]
    ELSE IF RLt(request.start_time, RInt(0))
    THEN [result |-> RenderClipExcept(HTTPException(400)), log |-> <<>>]
    ELSE IF RLe(request.end_time, request.start_time)
    THEN [result |-> RenderClipExcept(HTTPException(400)), log |-> <<>>]
    ELSE IF request.crop_mode \notin {"dynamic", "static"}
    THEN [result |-> RenderClipExcept(HTTPException(400)), log |-> <<>>]
    ELSE IF request.aspect_ratio \notin ALLOWED_ASPECT_RATIOS
    THEN [result |-> RenderClipExcept(HTTPException(400)), log |-> <<>>]
    ELSE LET ar_tuple == ASPECT_RATIO_PRESETS[request.aspect_ratio]
             clip == CreateClip(DefaultSmoothingWindow, video, request.start_time,
                                request.end_time, request.crop_mode, ar_tuple,
                                ffmpeg_ok)
         IN  IF clip.result.kind = "raise"
             THEN [result |-> RenderClipExcept(clip.result), log |-> clip.log]
             ELSE [result |-> [kind |-> "response", status_code |-> 200,
                               body |-> [clip.result EXCEPT !.kind = "RenderClipResponse"]],
                   log |-> clip.log]

----------------------------------------------------------------------------
(* Inputs *)

\* sampled positions per smoother call: 0..MaxSamples
MaxSamples == 4
\* smoothing windows 1..MaxWindow (plus the defaults)
MaxWindow == 4

RECURSIVE SeqsOfLen(_, _)
SeqsOfLen(S, k) ==
    IF k = 0 THEN {<<>>}
    ELSE {Append(s, x) : s \in SeqsOfLen(S, k - 1), x \in S}

SeqsUpTo(S, n) == UNION {SeqsOfLen(S, k) : k \in 0 .. n}

PositionValues == {0, 3, 10}

PositionLists == SeqsUpTo(PositionValues, MaxSamples)

\* detections per frame: 0..MaxFaces
MaxFaces == 2

\* the relative boxes the detector is taken to report
BoxXMins == {RInt(0), Rat(1, 2)}
BoxYMins == {RInt(0), Rat(1, 2)}
BoxWidths == {Rat(1, 4), Rat(1, 2)}
BoxHeights == {Rat(1, 2)}
BoxScores == {<<>>, <<RInt(1)>>}

Detections ==
    [xmin : BoxXMins, ymin : BoxYMins, width : BoxWidths, height : BoxHeights,
     score : BoxScores]

DetectionLists == SeqsUpTo(Detections, MaxFaces)

\* frame sizes the scorer is run on
ScorerFrames == {<<4, 3>>, <<2, 1>>, <<1, 2>>}

Dims == (1 .. MaxDim) \cup {1080, 1920}

Ratios == ((1 .. MaxAr) \X (1 .. MaxAr))
            \cup {ASPECT_RATIO_PRESETS[t] : t \in ALLOWED_ASPECT_RATIOS}

NoResult == [kind |-> "none"]

----------------------------------------------------------------------------
(* Actions of the planner specification *)

Idle == [op |-> "idle"]

Init ==
    /\ call = Idle
    /\ result = NoResult
    /\ log = <<>>
    /\ process_variance = RInt(1)
    /\ measurement_variance = RInt(1)
    /\ estimate = <<>>
    /\ error = RInt(1)
    /\ fed = 0

\* a call of SmartClipper._calculate_crop_dimensions
CalculateCropDimensionsCall ==
    /\ call = Idle
    /\ \E width \in Dims, height \in Dims, ar \in Ratios :
        /\ call' = [op |-> "_calculate_crop_dimensions",
                    width |-> width, height |-> height, aspect_ratio |-> ar]
        /\ result' = [kind |-> "return",
                      crop |-> CalculateCropDimensions(width, height, ar)]
        /\ log' = <<>>
        /\ UNCHANGED kalman_vars

\* the crop size VideoAnalyzer.analyze computes for a video of the given size
AnalyzeCropDimensionsCall ==
    /\ call = Idle
    /\ \E width \in Dims, height \in Dims, ar \in Ratios :
        /\ call' = [op |-> "analyze_crop_dimensions",
                    width |-> width, height |-> height, aspect_ratio |-> ar]
        /\ result' = [kind |-> "return",
                      target |-> AnalyzeCropDimensions(width, height, ar)]
        /\ log' = <<>>
        /\ UNCHANGED kalman_vars

\* a call of _select_speaking_face, of the analyzer or of the clipper
SelectSpeakingFaceCall ==
    /\ call = Idle
    /\ \E detections \in DetectionLists, frame \in ScorerFrames,
          owner \in {"VideoAnalyzer", "SmartClipper"} :
        /\ call' = [op |-> "_select_speaking_face", owner |-> owner,
                    detections |-> detections,
                    width |-> frame[1], height |-> frame[2]]
        /\ result' = [kind |-> "return",
                      face |-> IF owner = "VideoAnalyzer"
                                THEN SelectSpeakingFace(detections, frame[1], frame[2])
                                ELSE ClipperSelectSpeakingFace(detections, frame[1], frame[2])]
        /\ log' = <<>>
        /\ UNCHANGED kalman_vars

\* a call of VideoAnalyzer._smooth_positions
SmoothPositionsCall ==
    /\ call = Idle
    /\ \E positions \in PositionLists,
          window_size \in (1 .. MaxWindow) \cup {DefaultWindowSize} :
        /\ call' = [op |-> "_smooth_positions", positions |-> positions,
                    window_size |-> window_size]
        /\ result' = SmoothPositions([i \in 1 .. Len(positions) |-> RInt(positions[i])],
                                     window_size)
        /\ log' = <<>>
        /\ UNCHANGED kalman_vars

\* a call of SmartClipper._smooth_coordinates
SmoothCoordinatesCall ==
    /\ call = Idle
    /\ \E coordinates \in PositionLists,
          smoothing_window \in (1 .. MaxWindow) \cup {DefaultSmoothingWindow} :
        /\ call' = [op |-> "_smooth_coordinates", coordinates |-> coordinates,
                    smoothing_window |-> smoothing_window]
        /\ result' = [kind |-> "return",
                      coords |-> SmoothCoordinates(coordinates, smoothing_window)]
        /\ log' = <<>>
        /\ UNCHANGED kalman_vars

\* one face of a tenth of the frame's width that begins at 0.4 of it
ExampleFace ==
    [xmin |-> Rat(2, 5), ymin |-> Rat(1, 4), width |-> Rat(1, 10), height |-> Rat(1, 5),
     score |-> <<Rat(9, 10)>>]

\* a face whose box begins left of the frame
OutsideFace ==
    [xmin |-> Rat(-1, 8), ymin |-> RInt(0), width |-> Rat(1, 8), height |-> Rat(1, 4),
     score |-> <<Rat(1, 2)>>]

\* frames given to _detect_face_center: the detections, the frame size and the
\* crop width (which the analyzer's method does not take)
CenterInputs ==
    [detections : {<<>>, <<ExampleFace>>, <<OutsideFace>>,
                   <<[ExampleFace EXCEPT !.xmin = Rat(9, 10)]>>,
                   <<ExampleFace, OutsideFace>>,
                   <<[ExampleFace EXCEPT !.xmin = Rat(1, 8)], ExampleFace>>},
     width : {40}, height : {30}, crop_width : {0, 1, 16, 17, 39, 40}]
    \cup
    [detections : {<<>>, <<ExampleFace>>},
     width : {1920}, height : {1080}, crop_width : {607, 1920, 2000}]

\* a call of _detect_face_center, of the analyzer or of the clipper
DetectFaceCenterCall ==
    /\ call = Idle
    /\ \E input \in CenterInputs, owner \in {"VideoAnalyzer", "SmartClipper"} :
        /\ call' = [op |-> "_detect_face_center", owner |-> owner,
                    detections |-> input.detections,
                    width |-> input.width, height |-> input.height,
                    crop_width |-> input.crop_width]
        /\ result' = IF owner = "VideoAnalyzer"
                     THEN [kind |-> "return",
                           center_x |-> DetectFaceCenter(input.detections,
                                                         input.width, input.height)]
                     ELSE [kind |-> "return",
                           x |-> ClipperDetectFaceCenter(input.detections, input.width,
                                                         input.height, input.crop_width)]
        /\ log' = <<>>
        /\ UNCHANGED kalman_vars

\* clip times (seconds) and frame rates the frame range is computed for
RangeTimes == {RInt(0), Rat(1, 4), Rat(1, 2), Rat(3, 4), RInt(1), Rat(3, 2), Rat(7, 3)}

RangeFps == {RInt(1), RInt(2), RInt(3), RInt(24), RInt(30), Rat(2997, 100)}

\* the frame range of a _track_faces_in_range call on a capture of the given
\* frame rate, for clip times create_clip lets through (start_time < end_time)
FrameRangeCall ==
    /\ call = Idle
    /\ \E start_time \in RangeTimes, end_time \in RangeTimes, fps \in RangeFps :
        /\ RLt(start_time, end_time)
        /\ call' = [op |-> "frame_range", start_time |-> start_time,
                    end_time |-> end_time, fps |-> fps]
        /\ result' = [kind |-> "return",
                      range |-> FrameRange(start_time, end_time, fps)]
        /\ log' = <<>>
        /\ UNCHANGED kalman_vars

\* the operation has returned to its caller; the service waits for the next one
Return ==
    /\ call # Idle
    /\ call' = Idle
    /\ result' = NoResult
    /\ log' = <<>>
    /\ UNCHANGED kalman_vars

Next ==
    \/ CalculateCropDimensionsCall
    \/ AnalyzeCropDimensionsCall
    \/ SelectSpeakingFaceCall
    \/ SmoothPositionsCall
    \/ SmoothCoordinatesCall
    \/ DetectFaceCenterCall
    \/ FrameRangeCall
    \/ Return

Spec == Init /\ [][Next]_vars

----------------------------------------------------------------------------
(* The pipelines, the render stage and the HTTP handlers as operations *)

\* readable frames of a video given to the analyzer: 0..MaxFrames
MaxFrames == 11
\* readable frames of a video given to the clipper: 0..MaxClipFrames
MaxClipFrames == 3

\* what the detector reports on a frame: nothing, one small face at the left,
\* or that face and a larger one at the right
LeftFace ==
    [xmin |-> RInt(0), ymin |-> RInt(0), width |-> Rat(1, 4), height |-> Rat(1, 2),
     score |-> <<RInt(1)>>]

RightFace ==
    [xmin |-> Rat(1, 2), ymin |-> Rat(1, 2), width |-> Rat(1, 2), height |-> Rat(1, 2),
     score |-> <<>>]

FrameDetections == {<<>>, <<LeftFace>>, <<LeftFace, RightFace>>}

PipelineRatios == {<<9, 16>>, <<1, 1>>}

VideoFps == {1, 2}

SampleRates == {1, DefaultSampleRate}

AnalysisSizes == {<<40, 30>>, <<30, 40>>}

\* the exception of a detector that fails
DetectorErrors == {"RuntimeError"}

\* the frames of a video that are sampled at the given rate
Samples(frames, sample_rate) == (frames + sample_rate - 1) \div sample_rate

\* the videos given to the analyzer; detections lists what the detector
\* reports on the sampled frames, in order (no other frame is shown to it).
\* The last set holds the videos on which the detector fails: it reports
\* detections on the first sampled frames and raises on the next
AnalysisVideos(sample_rate) ==
    {[exists |-> exists, opened |-> FALSE, width |-> 40, height |-> 30,
      fps |-> 1, total_frames |-> 0, frames |-> 0, detections |-> <<>>,
      detector_error |-> "none"] :
        exists \in BOOLEAN}
    \cup
    UNION {
      {[exists |-> TRUE, opened |-> TRUE, width |-> size[1], height |-> size[2],
        fps |-> fps, total_frames |-> frames, frames |-> frames,
        detections |-> detections, detector_error |-> "none"] :
          size \in AnalysisSizes, fps \in VideoFps,
          detections \in SeqsOfLen(FrameDetections, Samples(frames, sample_rate))} :
      frames \in {f \in 0 .. MaxFrames : Samples(f, sample_rate) <= MaxSamples}}
    \cup
    UNION {
      {[exists |-> TRUE, opened |-> TRUE, width |-> size[1], height |-> size[2],
        fps |-> 1, total_frames |-> frames, frames |-> frames,
        detections |-> detections, detector_error |-> e] :
          size \in AnalysisSizes, e \in DetectorErrors,
          detections \in SeqsUpTo(FrameDetections, Samples(frames, sample_rate) - 1)} :
      frames \in {f \in 1 .. MaxFrames : Samples(f, sample_rate) <= MaxSamples}}

\* a path at which there is no file
NoVideo ==
    [exists |-> FALSE, opened |-> FALSE, fps |-> 1, frames |-> 0, detections |-> <<>>,
     detector_error |-> "none",
     probe |-> [width |-> 40, height |-> 30, rotation |-> 0]]

\* what ffprobe reports of the videos given to the clipper
ClipProbes ==
    {[width |-> 40, height |-> 30, rotation |-> 0],
     [width |-> 18, height |-> 32, rotation |-> 0],
     [width |-> 32, height |-> 20, rotation |-> 90]}

\* a portrait-stored video shown as landscape: 40x30 on display
RotatedWide == [width |-> 30, height |-> 40, rotation |-> 90]

\* a video given to the clipper that is never decoded
Frameless(probe) ==
    [exists |-> TRUE, opened |-> TRUE, fps |-> 1, frames |-> 0, detections |-> <<>>,
     detector_error |-> "none", probe |-> probe]

\* the videos given to the clipper of which ffprobe reports probe; detections
\* lists what the detector reports on each frame.  The last set holds the
\* videos on which the detector fails: it reports detections on the first
\* frames and raises on the later ones
ClipVideos(probe) ==
    {[exists |-> TRUE, opened |-> FALSE, fps |-> fps, frames |-> 0,
      detections |-> <<>>, detector_error |-> "none", probe |-> probe] :
        fps \in VideoFps}
    \cup
    UNION {
      {[exists |-> TRUE, opened |-> TRUE, fps |-> fps, frames |-> frames,
        detections |-> detections, detector_error |-> "none", probe |-> probe] :
          fps \in VideoFps, detections \in SeqsOfLen(FrameDetections, frames)} :
      frames \in 0 .. MaxClipFrames}
    \cup
    UNION {
      {[exists |-> TRUE, opened |-> TRUE, fps |-> fps, frames |-> frames,
        detections |-> detections, detector_error |-> e, probe |-> probe] :
          fps \in VideoFps, e \in DetectorErrors,
          detections \in SeqsUpTo(FrameDetections, frames - 1)} :
      frames \in 1 .. MaxClipFrames}

ClipTimes == {RInt(0), Rat(1, 2), Rat(3, 2)}

ClipWindows == {2, DefaultSmoothingWindow}

\* a video with two faces on each of its frames
Crowded(probe) ==
    [exists |-> TRUE, opened |-> TRUE, fps |-> 2, frames |-> 2,
     detections |-> <<<<LeftFace, RightFace>>, <<LeftFace, RightFace>>>>,
     detector_error |-> "none", probe |-> probe]

\* create_clip decodes the video only when the time range is valid and the
\* planner asks for tracking; a video that is not decoded is taken without
\* frames, and so is the missing file.  Where the range is valid and the
\* planner asks for no tracking, a video with frames and faces is given too
Decodes(probe, start_time, end_time, aspect_ratio) ==
    /\ RLt(start_time, end_time)
    /\ LET display == GetDisplayDimensions(probe)
       IN  ~CalculateCropDimensions(display[1], display[2], aspect_ratio).skip_face_detection

VideosFor(probe, start_time, end_time, aspect_ratio) ==
    IF Decodes(probe, start_time, end_time, aspect_ratio)
    THEN ClipVideos(probe)
    ELSE IF RLt(start_time, end_time)
    THEN {Frameless(probe), Crowded(probe)}
    ELSE {Frameless(probe)}

\* the encoder's failure does not depend on what was tracked: it is enumerated
\* for the calls on videos of at most one frame
EncoderMayFail(c) == c.ffmpeg_ok \/ c.video.frames <= 1

\* The pipeline's actions take as their argument the operation they call, a
\* function from the calls (the inputs) to what the operation does with them;
\* PipelineNext hands each action the operator above that models it.

\* VideoAnalyzer(sample_rate).analyze(video_path, aspect_ratio)
AnalyzeCalls ==
    UNION {[op : {"analyze"}, video : AnalysisVideos(sample_rate),
            aspect_ratio : PipelineRatios, sample_rate : {sample_rate}] :
           sample_rate \in SampleRates}

AnalyzeCall(analyze) ==
    /\ call = Idle
    /\ \E c \in DOMAIN analyze :
        LET outcome == analyze[c]
        IN  /\ call' = c
            /\ result' = outcome.result
            /\ log' = outcome.log
    /\ UNCHANGED kalman_vars

\* SmartClipper(smoothing_window).create_clip(video_path, start_time, end_time,
\* output_path, crop_mode, aspect_ratio); ffmpeg_ok tells whether the encoder
\* run succeeds
CreateClipCalls ==
    UNION {{c \in [op : {"create_clip"}, smoothing_window : ClipWindows,
                   video : {NoVideo} \cup VideosFor(probe, start_time, end_time,
                                                    aspect_ratio),
                   start_time : {start_time}, end_time : {end_time},
                   crop_mode : {"dynamic", "static"}, aspect_ratio : {aspect_ratio},
                   ffmpeg_ok : BOOLEAN] : EncoderMayFail(c)} :
           start_time \in ClipTimes, end_time \in ClipTimes,
           aspect_ratio \in PipelineRatios, probe \in ClipProbes}
    \cup
    [op : {"create_clip"}, smoothing_window : ClipWindows,
     video : {Crowded(RotatedWide)}, start_time : {RInt(0)}, end_time : {Rat(3, 2)},
     crop_mode : {"dynamic", "static"}, aspect_ratio : PipelineRatios,
     ffmpeg_ok : {TRUE}]

CreateClipCall(create_clip) ==
    /\ call = Idle
    /\ \E c \in DOMAIN create_clip :
        LET outcome == create_clip[c]
        IN  /\ call' = c
            /\ result' = outcome.result
            /\ log' = outcome.log
    /\ UNCHANGED kalman_vars

\* crop data as _generate_crop_data lays it out, for a 16x30 crop of a 40x30 frame
CropDataLists ==
    {[i \in 1 .. Len(xs) |->
        [frame |-> i - 1, x |-> xs[i], y |-> 0, width |-> 16, height |-> 30,
         center_x |-> RInt(xs[i] + 8)]] : xs \in PositionLists}

\* VideoRenderer.render(input_path, crop_data, output_path)
RenderCalls == [op : {"render"}, crop_data : CropDataLists, ffmpeg_ok : BOOLEAN]

RenderCall(render) ==
    /\ call = Idle
    /\ \E c \in DOMAIN render :
        LET outcome == render[c]
        IN  /\ call' = c
            /\ result' = outcome.result
            /\ log' = outcome.log
    /\ UNCHANGED kalman_vars

\* VideoRenderer.render_dynamic_crop(input_path, crop_data, output_path)
RenderDynamicCropCalls ==
    [op : {"render_dynamic_crop"}, crop_data : CropDataLists, ffmpeg_ok : BOOLEAN]

RenderDynamicCropCall(render_dynamic_crop) ==
    /\ call = Idle
    /\ \E c \in DOMAIN render_dynamic_crop :
        LET outcome == render_dynamic_crop[c]
        IN  /\ call' = c
            /\ result' = outcome.result
            /\ log' = outcome.log
    /\ UNCHANGED kalman_vars

\* a POST /analyze-video request, served by analyze_video
AnalyzeVideoCalls ==
    [op : {"analyze_video"}, video : AnalysisVideos(DefaultSampleRate)]

\* AdvancedRenderer().render_precise(input_path, crop_data, output_path) on a
\* video of up to two frames, opened or not, with crop data for up to two frames
PreciseVideos ==
    {[Frameless(RotatedWide) EXCEPT !.opened = opened, !.frames = frames] :
        opened \in BOOLEAN, frames \in 0 .. 2}

PreciseCropData == {crop_data \in CropDataLists : Len(crop_data) <= 2}

RenderPreciseCalls ==
    [op : {"render_precise"}, video : PreciseVideos, crop_data : PreciseCropData]

RenderPreciseCall(render_precise) ==
    /\ call = Idle
    /\ \E c \in DOMAIN render_precise :
        LET outcome == render_precise[c]
        IN  /\ call' = c
            /\ result' = outcome.result
            /\ log' = outcome.log
    /\ UNCHANGED kalman_vars

AnalyzeVideoCall(analyze_video) ==
    /\ call = Idle
    /\ \E c \in DOMAIN analyze_video :
        LET outcome == analyze_video[c]
        IN  /\ call' = c
            /\ result' = outcome.result
            /\ log' = outcome.log
    /\ UNCHANGED kalman_vars

\* the tokens and times /render-clip requests carry
RequestTimes == ClipTimes \cup {RInt(-1)}

RequestCropModes == {"dynamic", "static", "zoom"}

RequestAspectRatios == {"9:16", "1:1", "2:1"}

RenderClipRequests ==
    [start_time : RequestTimes, end_time : RequestTimes,
     crop_mode : RequestCropModes, aspect_ratio : RequestAspectRatios]

\* the handler reaches create_clip only with a request that passes its checks;
\* a video it never reaches is taken without frames
RequestVideos(request, probe) ==
    IF /\ RLe(RInt(0), request.start_time)
       /\ request.crop_mode \in {"dynamic", "static"}
       /\ request.aspect_ratio \in ALLOWED_ASPECT_RATIOS
    THEN VideosFor(probe, request.start_time, request.end_time,
                   ASPECT_RATIO_PRESETS[request.aspect_ratio])
    ELSE {Frameless(probe)}

\* a POST /render-clip request, served by render_clip
RenderClipCalls ==
    UNION {{c \in [op : {"render_clip"}, request : {request},
                   video : {NoVideo} \cup RequestVideos(request, probe),
                   ffmpeg_ok : BOOLEAN] : EncoderMayFail(c)} :
           request \in RenderClipRequests, probe \in ClipProbes}

RenderClipCall(render_clip) ==
    /\ call = Idle
    /\ \E c \in DOMAIN render_clip :
        LET outcome == render_clip[c]
        IN  /\ call' = c
            /\ result' = outcome.result
            /\ log' = outcome.log
    /\ UNCHANGED kalman_vars

PipelineNext ==
    \/ AnalyzeCall([c \in AnalyzeCalls |->
                        Analyze(c.video, c.aspect_ratio, c.sample_rate)])
    \/ CreateClipCall([c \in CreateClipCalls |->
                        CreateClip(c.smoothing_window, c.video, c.start_time,
                                   c.end_time, c.crop_mode, c.aspect_ratio,
                                   c.ffmpeg_ok)])
    \/ RenderCall([c \in RenderCalls |-> Render(c.crop_data, c.ffmpeg_ok)])
    \/ RenderDynamicCropCall([c \in RenderDynamicCropCalls |->
                                RendererRenderDynamicCrop(c.crop_data, c.ffmpeg_ok)])
    \/ AnalyzeVideoCall([c \in AnalyzeVideoCalls |-> AnalyzeVideo(c.video)])
    \/ RenderPreciseCall([c \in RenderPreciseCalls |->
                            RenderPrecise(c.video, c.crop_data)])
    \/ RenderClipCall([c \in RenderClipCalls |->
                        RenderClipHandler(c.request, c.video, c.ffmpeg_ok)])
    \/ Return

PipelineSpec == Init /\ [][PipelineNext]_vars

----------------------------------------------------------------------------
(* The recursive smoother as an object: construction, update, smooth *)

\* measurements one KalmanSmoother is given: 0..MaxMeasurements
MaxMeasurements == 3

\* the variances a KalmanSmoother is constructed with
KalmanVariances == {Rat(1, 2), RInt(1), RInt(2)}

\* the KalmanSmoother object as update and smooth read it
Kalman ==
    [estimate |-> estimate, error |-> error,
     process_variance |-> process_variance,
     measurement_variance |-> measurement_variance]

\* KalmanSmoother(process_variance, measurement_variance) has been constructed
KalmanInit ==
    /\ call = Idle
    /\ result = NoResult
    /\ log = <<>>
    /\ process_variance \in KalmanVariances
    /\ measurement_variance \in KalmanVariances
    /\ estimate = <<>>
    /\ error = RInt(1)
    /\ fed = 0

\* a new KalmanSmoother replaces the one in use
KalmanNew ==
    /\ call = Idle
    /\ fed > 0
    /\ \E pv \in KalmanVariances, mv \in KalmanVariances :
        /\ process_variance' = pv
        /\ measurement_variance' = mv
    /\ estimate' = <<>>
    /\ error' = RInt(1)
    /\ fed' = 0
    /\ call' = [op |-> "__init__"]
    /\ result' = NoResult
    /\ log' = <<>>

\* KalmanSmoother.update(measurement)
KalmanUpdateCall ==
    /\ call = Idle
    /\ fed < MaxMeasurements
    /\ \E measurement \in PositionValues :
        LET u == KalmanUpdate(Kalman, RInt(measurement))
        IN  /\ call' = [op |-> "update", measurement |-> measurement]
            /\ estimate' = u.estimate
            /\ error' = u.error
            /\ result' = [kind |-> "return", filtered |-> u.out]
    /\ fed' = fed + 1
    /\ log' = <<>>
    /\ UNCHANGED <<process_variance, measurement_variance>>

\* KalmanSmoother.smooth(positions)
KalmanSmoothCall ==
    /\ call = Idle
    /\ \E positions \in SeqsUpTo(PositionValues, MaxMeasurements - fed) :
        LET s == KalmanSmoothLoop(Kalman,
                                  [i \in 1 .. Len(positions) |-> RInt(positions[i])],
                                  1, <<>>)
        IN  /\ call' = [op |-> "smooth", positions |-> positions]
            /\ estimate' = s.estimate
            /\ error' = s.error
            /\ result' = [kind |-> "return", smoothed |-> s.smoothed]
            /\ fed' = fed + Len(positions)
    /\ log' = <<>>
    /\ UNCHANGED <<process_variance, measurement_variance>>

KalmanNext ==
    \/ KalmanNew
    \/ KalmanUpdateCall
    \/ KalmanSmoothCall
    \/ Return

KalmanSpec == KalmanInit /\ [][KalmanNext]_vars

----------------------------------------------------------------------------
(* Claims *)

\* the calls of the kind ev that the operation made
Events(ev) == {i \in 1 .. Len(log) : log[i].ev = ev}

\* C1: for every clip request, the crop_mode in the result of create_clip is
\* the render strategy that produced the clip: a clip rendered with a single
\* fixed crop position (the static behaviour) is reported as static, never as
\* dynamic.
C1_ReportedModeIsUsed ==
    (call.op = "create_clip" /\ result.kind = "return" /\ result.success) =>
        \A i \in Events("ffmpeg") :
            log[i].renderer = "_render_static_crop" => result.crop_mode = "static"

\* the display width and the crop width of the create_clip call in progress
ClipWidth == GetDisplayDimensions(call.video.probe)[1]

ClipCropWidth ==
    CalculateCropDimensions(GetDisplayDimensions(call.video.probe)[1],
                            GetDisplayDimensions(call.video.probe)[2],
                            call.aspect_ratio).crop_width

\* C2: every crop x position produced lies in [0, width - crop_width], for
\* every sequence of detections: each crop_data[i].x of _generate_crop_data,
\* each x returned by SmartClipper._detect_face_center, each value after
\* _smooth_coordinates, and the x handed to the encoder by _render_clip.
C2_CropXInRange ==
    /\ (call.op = "analyze" /\ result.kind = "return") =>
          \A f \in 1 .. Len(result.crop_data) :
              /\ result.crop_data[f].x >= 0
              /\ result.crop_data[f].x
                    <= call.video.width - result.crop_data[f].width
    /\ call.op = "create_clip" =>
          /\ \A i \in Events("_detect_face_center") :
                log[i].x \in 0 .. (ClipWidth - ClipCropWidth)
          /\ \A i \in Events("_smooth_coordinates") :
                \A j \in 1 .. Len(log[i].coords) :
                    log[i].coords[j] \in 0 .. (ClipWidth - ClipCropWidth)
          /\ \A i \in Events("ffmpeg") :
                /\ log[i].width = ClipCropWidth
                /\ log[i].x \in 0 .. (ClipWidth - ClipCropWidth)

\* a clip has been rendered after tracking put one frame's window at the left
\* border and another frame's window at the right border of the frame
C2_Witness ==
    /\ call.op = "create_clip"
    /\ result.kind = "return"
    /\ \E i \in Events("_detect_face_center") : log[i].x = 0
    /\ \E i \in Events("_detect_face_center") :
          log[i].x = ClipWidth - ClipCropWidth /\ log[i].x > 0
    /\ Events("ffmpeg") # {}

\* C3: for every positive source size and target ratio,
\* _calculate_crop_dimensions returns the result of the ordered branches, with
\* ideal_width = floor(height*num/den) and ideal_height = floor(width*den/num):
\* exact match -> source size, no tracking; else relative aspect difference
\* <= 0.15 -> (ideal_width, height) if it fits, else (width, ideal_height), no
\* tracking; else source narrower -> (width, ideal_height), no tracking; else
\* (ideal_width, height) with tracking.  1920x1080 at 9:16 gives 607x1080 with
\* tracking and 1080x1920 at 9:16 gives 1080x1920 without.
C3_PlannerBranches ==
    call.op = "_calculate_crop_dimensions" =>
        LET w == call.width
            h == call.height
            num == call.aspect_ratio[1]
            den == call.aspect_ratio[2]
            ideal_width == (h * num) \div den
            ideal_height == (w * den) \div num
            near == Abs(w * den - h * num) * 100 <= 15 * h * num
            narrower == w * den < h * num
            expected ==
                IF w = ideal_width /\ h = ideal_height THEN <<w, h, FALSE>>
                ELSE IF near THEN (IF ideal_width <= w THEN <<ideal_width, h, FALSE>>
                                   ELSE <<w, ideal_height, FALSE>>)
                ELSE IF narrower THEN <<w, ideal_height, FALSE>>
                ELSE <<ideal_width, h, TRUE>>
            got == result.crop
        IN  /\ <<got.crop_width, got.crop_height, ~got.skip_face_detection>> = expected
            /\ (w = 1920 /\ h = 1080 /\ num = 9 /\ den = 16)
                    => <<got.crop_width, got.crop_height, ~got.skip_face_detection>>
                         = <<607, 1080, TRUE>>
            /\ (w = 1080 /\ h = 1920 /\ num = 9 /\ den = 16)
                    => <<got.crop_width, got.crop_height, ~got.skip_face_detection>>
                         = <<1080, 1920, FALSE>>

\* the planner has run on the 1920x1080 source at 9:16 and chose tracking
C3_Witness ==
    /\ call.op = "_calculate_crop_dimensions"
    /\ call.width = 1920 /\ call.height = 1080 /\ call.aspect_ratio = <<9, 16>>
    /\ result.crop.crop_width = 607
    /\ ~result.crop.skip_face_detection

\* C4: for every input sequence of positions, sequences shorter than the window
\* (lengths 1 and 2) included, the windowed moving-average smoother returns
\* exactly one output value per input value, in the analyzer
\* (_smooth_positions) and in the clipper (_smooth_coordinates).
C4_SmootherKeepsLength ==
    /\ (call.op = "_smooth_positions" /\ Len(call.positions) >= 1) =>
            /\ result.kind = "return"
            /\ Len(result.smoothed) = Len(call.positions)
    /\ (call.op = "_smooth_coordinates" /\ Len(call.coordinates) >= 1) =>
            /\ result.kind = "return"
            /\ Len(result.coords) = Len(call.coordinates)

\* C5: for every detection set with at least two entries,
\* _select_speaking_face returns a detection whose score is >= the score of
\* every other detection, the earliest-listed one among those of maximal score,
\* and it never returns None for a non-empty set.
C5_ScorerArgmax ==
    (call.op = "_select_speaking_face" /\ Len(call.detections) >= 1) =>
        LET n == Len(call.detections)
            k == result.face
            S(i) == FaceScore(call.detections[i], call.width, call.height)
        IN  /\ k \in 1 .. n
            /\ n >= 2 =>
                  /\ \A j \in 1 .. n : ~ScoreGT(S(j), S(k))
                  /\ \A j \in 1 .. (k - 1) : ScoreGT(S(k), S(j))

\* the scorer has chosen among two different faces of equal score, and among two
\* faces of which the later one scores higher
C5_Witness ==
    /\ call.op = "_select_speaking_face"
    /\ Len(call.detections) = 2
    /\ call.detections[1] # call.detections[2]
    /\ result.face = 1
    /\ ~ScoreGT(FaceScore(call.detections[1], call.width, call.height),
                FaceScore(call.detections[2], call.width, call.height))
    /\ ~ScoreGT(FaceScore(call.detections[2], call.width, call.height),
                FaceScore(call.detections[1], call.width, call.height))

\* C6: _generate_crop_data returns exactly total_frames entries with frame =
\* 0..total_frames-1 in order; center_x at a sampled frame number is that
\* sample's smoothed value, between two consecutive samples it is their linear
\* interpolation, and before the first or after the last sampled frame it is
\* the first or last sample's value.
C6_CropDataInterpolates ==
    call.op = "analyze" =>
        \A i \in Events("_generate_crop_data") :
            LET xs == log[i].frame_numbers
                ys == log[i].smoothed_centers
                n == Len(xs)
            IN  /\ result.kind = "return"
                /\ Len(result.crop_data) = log[i].total_frames
                /\ \A f \in 1 .. log[i].total_frames :
                      LET frame == f - 1
                          center_x == result.crop_data[f].center_x
                      IN  /\ result.crop_data[f].frame = frame
                          /\ \A k \in 1 .. n : xs[k] = frame => center_x = ys[k]
                          /\ frame < xs[1] => center_x = ys[1]
                          /\ frame > xs[n] => center_x = ys[n]
                          /\ \A k \in 1 .. (n - 1) :
                                (xs[k] < frame /\ frame < xs[k + 1]) =>
                                    center_x =
                                        RAdd(ys[k],
                                             RMul(RSub(ys[k + 1], ys[k]),
                                                  Rat(frame - xs[k], xs[k + 1] - xs[k])))

\* x lies between p and m: equal to them when they are equal, strictly between
\* them when they differ
Between(p, m, x) ==
    IF p = m THEN x = m
    ELSE \/ RLt(p, x) /\ RLt(x, m)
         \/ RLt(m, x) /\ RLt(x, p)

\* C7: on a KalmanSmoother with positive variances, n measurements fed through
\* update/smooth give n outputs; the first output of a fresh smoother equals the
\* first measurement exactly, and every later output lies between the previous
\* estimate and the new measurement, strictly between them when they differ.
C7_KalmanConvex ==
    [][/\ call'.op = "update" =>
            IF estimate = <<>>
            THEN result'.filtered = RInt(call'.measurement)
            ELSE Between(estimate[1], RInt(call'.measurement), result'.filtered)
       /\ call'.op = "smooth" =>
            LET positions == call'.positions
                smoothed == result'.smoothed
                previous(i) == IF i = 1 THEN estimate ELSE <<smoothed[i - 1]>>
            IN  /\ Len(smoothed) = Len(positions)
                /\ \A i \in 1 .. Len(positions) :
                      IF previous(i) = <<>>
                      THEN smoothed[i] = RInt(positions[i])
                      ELSE Between(previous(i)[1], RInt(positions[i]), smoothed[i])
      ]_vars

\* a fresh smoother has smoothed three measurements, the second and the third
\* differing from the estimate before them
C7_Witness ==
    /\ call.op = "smooth"
    /\ fed = 3
    /\ Len(call.positions) = 3
    /\ result.smoothed[1] = RInt(call.positions[1])
    /\ result.smoothed[1] # RInt(call.positions[2])
    /\ result.smoothed[2] # RInt(call.positions[3])
    /\ result.smoothed[3] # result.smoothed[2]

\* a /render-clip request that fails one of the handler's checks
InvalidRenderClipRequest(request) ==
    \/ RLt(request.start_time, RInt(0))
    \/ RLe(request.end_time, request.start_time)
    \/ request.crop_mode \notin {"dynamic", "static"}
    \/ request.aspect_ratio \notin ALLOWED_ASPECT_RATIOS

\* C8: a /render-clip request (for a file that exists) with start_time < 0,
\* with start_time >= end_time, with a crop_mode other than dynamic or static,
\* or with an aspect_ratio outside the allowed set is answered with HTTP 400,
\* never with 500 and never with a clip.
C8_InvalidRequestIs400 ==
    (/\ call.op = "render_clip"
     /\ call.video.exists
     /\ InvalidRenderClipRequest(call.request)) =>
        /\ result = HTTPException(400)
        /\ Events("ffmpeg") = {}

\* C9: a POST /analyze-video request whose video_path does not exist is
\* answered with status 404, and the analyzer is never invoked for it.
C9_MissingFileIs404 ==
    (call.op = "analyze_video" /\ ~call.video.exists) =>
        /\ result = HTTPException(404)
        /\ log = <<>>

\* C10: empty crop data given to VideoRenderer.render or to
\* VideoRenderer.render_dynamic_crop is rejected with ValueError 'Crop data is
\* empty', and no encoder process is started for that call.
C10_EmptyCropDataRejected ==
    (call.op \in {"render", "render_dynamic_crop"} /\ Len(call.crop_data) = 0) =>
        /\ result.kind = "raise"
        /\ result.exception = "ValueError"
        /\ result.message = "Crop data is empty"
        /\ Events("ffmpeg") = {}

\* the expensive work of a clip request: the display-dimension probe, the
\* opening of a capture, a detector call, an encoder run
ExpensiveEvents == {"ffprobe", "capture_open", "detect", "ffmpeg"}

\* C11: a clip request that fails validation (missing file, negative start,
\* start_time >= end_time, unknown crop mode, unknown aspect ratio at
\* /render-clip; missing file or start_time >= end_time at create_clip) fails
\* before any expensive work: no probe, no capture, no detector call and no
\* encoder run is made for it.
C11_FailFast ==
    /\ (/\ call.op = "render_clip"
        /\ ~call.video.exists \/ InvalidRenderClipRequest(call.request)) =>
            /\ result.kind = "raise"
            /\ \A i \in 1 .. Len(log) : log[i].ev \notin ExpensiveEvents
    /\ (/\ call.op = "create_clip"
        /\ ~call.video.exists \/ RLe(call.end_time, call.start_time)) =>
            /\ result.kind = "raise"
            /\ \A i \in 1 .. Len(log) : log[i].ev \notin ExpensiveEvents

\* a request with an unknown crop mode, otherwise valid, for a file that
\* exists, has been refused
C11_Witness ==
    /\ call.op = "render_clip"
    /\ call.video.exists
    /\ call.request.crop_mode = "zoom"
    /\ call.request.aspect_ratio = "9:16"
    /\ RLt(call.request.start_time, call.request.end_time)
    /\ RLe(RInt(0), call.request.start_time)
    /\ result.kind = "raise"
    /\ log = <<>>

\* the detector calls of the operation in progress that raised
FailedDetections == {i \in Events("detect") : log[i].raised # "none"}

\* C12: when the detector raises on a frame during sampling (analyze or
\* _track_faces_in_range), the request is aborted there: the failing call is
\* the last thing the operation did (no further frame, no stand-in position,
\* no retry of the frame, no smoother, interpolator or renderer), and the
\* caller gets an error and no crop data or clip.
C12_DetectorFailureAborts ==
    /\ \A i \in FailedDetections :
          /\ i = Len(log)
          /\ \A j \in Events("detect") : j # i => log[j].frame # log[i].frame
          /\ result.kind = "raise"
          /\ call.op \in {"analyze", "create_clip"} =>
                result.exception = log[i].raised
          /\ call.op \in {"analyze_video", "render_clip"} =>
                result = HTTPException(500)
    /\ (/\ call.op \in {"analyze", "analyze_video"}
        /\ call.video.opened
        /\ call.video.exists
        /\ call.video.detector_error # "none") =>
            /\ Cardinality(FailedDetections) = 1
            /\ Cardinality(Events("detect")) = Len(call.video.detections) + 1
            /\ Cardinality(Events("_detect_face_center")) = Len(call.video.detections)

\* the detector raised on the third sampled frame of an analysis, after two
\* frames it reported on, or on the second frame of a clip's range
C12_Witness ==
    \/ /\ call.op = "analyze"
       /\ Len(call.video.detections) = 2
       /\ call.video.frames > 3
       /\ call.video.detections[1] # <<>>
       /\ FailedDetections # {}
       /\ result.kind = "raise"
    \/ /\ call.op = "create_clip"
       /\ \E i \in FailedDetections : log[i].frame = 2
       /\ Cardinality(Events("detect")) = 2

\* x is the arithmetic mean of the integers xs, cut to an integer pixel
IsTruncatedMean(x, xs) ==
    /\ Len(xs) > 0
    /\ x * Len(xs) <= ISum(xs, 1, Len(xs))
    /\ ISum(xs, 1, Len(xs)) < (x + 1) * Len(xs)

\* the crop mode asked for by the clip request in progress
RequestedCropMode ==
    IF call.op = "render_clip" THEN call.request.crop_mode ELSE call.crop_mode

\* C13: with crop_mode 'static' the one crop x passed to the encoder is the
\* arithmetic mean of the trajectory given to the render stage, cut to an
\* integer pixel: of smoothed_coords in _render_clip, of the x values of
\* crop_data in VideoRenderer.render.
C13_StaticIsMean ==
    /\ (call.op \in {"create_clip", "render_clip"} /\ RequestedCropMode = "static") =>
          \A e \in Events("ffmpeg") :
              /\ Cardinality(Events("ffmpeg")) = 1
              /\ \A t \in Events("_smooth_coordinates") :
                    IsTruncatedMean(log[e].x, log[t].coords)
    /\ call.op \in {"render", "render_dynamic_crop"} =>
          \A e \in Events("ffmpeg") :
              /\ Cardinality(Events("ffmpeg")) = 1
              /\ IsTruncatedMean(log[e].x,
                                 [i \in 1 .. Len(call.crop_data) |-> call.crop_data[i].x])

\* a static clip has been rendered from a trajectory that moves and whose
\* mean is not a whole pixel
C13_Witness ==
    /\ call.op = "create_clip"
    /\ call.crop_mode = "static"
    /\ \E e \in Events("ffmpeg"), t \in Events("_smooth_coordinates") :
          /\ \E j \in 1 .. Len(log[t].coords) : log[t].coords[j] # log[t].coords[1]
          /\ log[e].x * Len(log[t].coords) < ISum(log[t].coords, 1, Len(log[t].coords))

\* C14: for a frame with zero detections the position is the centre
\* fallback: SmartClipper._detect_face_center returns (width - crop_width)//2,
\* and 0 when crop_width >= width; VideoAnalyzer._detect_face_center returns
\* width/2.
C14_CentreFallback ==
    (call.op = "_detect_face_center" /\ Len(call.detections) = 0) =>
        /\ call.owner = "SmartClipper" =>
              /\ call.crop_width >= call.width => result.x = 0
              /\ call.crop_width < call.width =>
                    /\ 2 * result.x <= call.width - call.crop_width
                    /\ call.width - call.crop_width < 2 * result.x + 2
        /\ call.owner = "VideoAnalyzer" =>
              2 * result.center_x.n = call.width * result.center_x.d

\* the clipper has returned the centred window for a frame without a face,
\* the gap of 23 pixels being odd
C14_Witness ==
    /\ call.op = "_detect_face_center"
    /\ call.owner = "SmartClipper"
    /\ Len(call.detections) = 0
    /\ call.width = 40
    /\ call.crop_width = 17
    /\ result.x = 11

\* the display height of the video of the create_clip call in progress
ClipHeight == GetDisplayDimensions(call.video.probe)[2]

\* C15: whenever the crop height is less than the source height, the vertical
\* crop offset handed to the encoder or written to crop data is
\* max(0, (height - crop_height)//2): in both crop modes of clip extraction
\* and in the crop_data of whole-video analysis.
C15_VerticalOffsetCentred ==
    /\ call.op = "create_clip" =>
          \A e \in Events("ffmpeg") :
              log[e].height < ClipHeight =>
                  log[e].y = Max(0, (ClipHeight - log[e].height) \div 2)
    /\ (call.op = "analyze" /\ result.kind = "return") =>
          \A f \in 1 .. Len(result.crop_data) :
              result.crop_data[f].height < call.video.height =>
                  result.crop_data[f].y
                      = Max(0, (call.video.height - result.crop_data[f].height) \div 2)

\* what the Aspect Planner returns for the create_clip call in progress
ClipPlan ==
    CalculateCropDimensions(ClipWidth, ClipHeight, call.aspect_ratio)

\* C16: when the Aspect Planner decides that tracking is not needed,
\* create_clip emits a static crop at the centred coordinates: the x passed
\* to the encoder is max(0, (width - crop_width)//2) and the y is
\* max(0, (height - crop_height)//2), for every smoothing window and either
\* requested crop_mode.
C16_SkipIsCentred ==
    (call.op = "create_clip" /\ ClipPlan.skip_face_detection) =>
        \A e \in Events("ffmpeg") :
            /\ log[e].x = Max(0, (ClipWidth - ClipPlan.crop_width) \div 2)
            /\ log[e].y = Max(0, (ClipHeight - ClipPlan.crop_height) \div 2)

\* the cases in which no tracking is needed for a width x height source and
\* the target ratio ar: the sizes match exactly, the aspect ratios differ by
\* at most 15% of the target's, or the source is narrower than the target
NoTrackingNeeded(width, height, ar) ==
    \/ /\ width = (height * ar[1]) \div ar[2]
       /\ height = (width * ar[2]) \div ar[1]
    \/ 100 * Abs(width * ar[2] - height * ar[1]) <= 15 * height * ar[1]
    \/ width * ar[2] < height * ar[1]

\* C17: in every create_clip request for which the Aspect Planner returns
\* track_subject = false (exact match, near match within 15%, or source
\* narrower than target) the detector is never invoked and no capture is
\* opened for tracking; detection work happens only after the probe and the
\* planner, and only when the planner asks for tracking.
C17_NoDetectionWhenSkipped ==
    call.op = "create_clip" =>
        /\ NoTrackingNeeded(ClipWidth, ClipHeight, call.aspect_ratio) =>
              /\ Events("detect") = {}
              /\ Events("_detect_face_center") = {}
              /\ \A c \in Events("capture_open"), t \in Events("_smooth_coordinates") :
                    t < c
        /\ \A d \in Events("detect") :
              /\ ~NoTrackingNeeded(ClipWidth, ClipHeight, call.aspect_ratio)
              /\ ~ClipPlan.skip_face_detection
              /\ \E q \in Events("ffprobe") : q < d

\* a clip of a video with faces on its frames has been rendered without
\* tracking, the source being within 15% of the target ratio
C17_Witness ==
    /\ call.op = "create_clip"
    /\ call.video = Crowded(call.video.probe)
    /\ ClipWidth = 20
    /\ ClipHeight = 32
    /\ call.aspect_ratio = <<9, 16>>
    /\ ClipPlan.skip_face_detection
    /\ Events("ffmpeg") # {}
    /\ Events("detect") = {}

\* C18: for every source with positive integer width and height and every
\* allowed target ratio, the crop width and the crop height computed by
\* SmartClipper._calculate_crop_dimensions and by VideoAnalyzer.analyze are
\* positive integers, never 0.
C18_CropDimensionsPositive ==
    (/\ call.op \in {"_calculate_crop_dimensions", "analyze_crop_dimensions"}
     /\ call.width > 0
     /\ call.height > 0
     /\ \E t \in ALLOWED_ASPECT_RATIOS : call.aspect_ratio = ASPECT_RATIO_PRESETS[t]) =>
        /\ call.op = "_calculate_crop_dimensions" =>
              result.crop.crop_width > 0 /\ result.crop.crop_height > 0
        /\ call.op = "analyze_crop_dimensions" =>
              result.target.crop_width > 0 /\ result.target.crop_height > 0

\* floor of a rational
Floor(a) == a.n \div a.d

\* x brought into [lo, hi], for lo <= hi
Clamp(x, lo, hi) == IF x < lo THEN lo ELSE IF x > hi THEN hi ELSE x

\* C19: for a frame with a chosen detection SmartClipper._detect_face_center
\* returns clamp(floor((x_min + box_w/2) * width) - crop_width//2, 0,
\* width - crop_width), for crop windows that fit the frame; for x_min = 0.4,
\* box_w = 0.1, width 1920 and crop_width 607 it returns 561.
C19_ClipperCropX ==
    (/\ call.op = "_detect_face_center"
     /\ call.owner = "SmartClipper"
     /\ Len(call.detections) > 0
     /\ call.crop_width <= call.width) =>
        LET chosen == call.detections[ClipperSelectSpeakingFace(call.detections,
                                                                call.width, call.height)]
            centre == Floor(RMul(RAdd(chosen.xmin, RDiv(chosen.width, RInt(2))),
                                 RInt(call.width)))
        IN  /\ result.x = Clamp(centre - call.crop_width \div 2,
                                0, call.width - call.crop_width)
            /\ (/\ call.detections = <<ExampleFace>>
                /\ call.width = 1920
                /\ call.crop_width = 607) => result.x = 561

\* the clipper has placed the window for the one face at 0.4 of a frame 1920
\* wide
C19_Witness ==
    /\ call.op = "_detect_face_center"
    /\ call.owner = "SmartClipper"
    /\ call.detections = <<ExampleFace>>
    /\ call.width = 1920
    /\ call.crop_width = 607
    /\ result.x = 561

\* the sample rate of the analyzer serving the call in progress
AnalyzerSampleRate ==
    IF call.op = "analyze" THEN call.sample_rate ELSE DefaultSampleRate

\* C20: during VideoAnalyzer.analyze the detector is invoked exactly once for
\* each decoded frame whose index is a multiple of sample_rate, in order, and
\* for no other frame; every detector call that returns adds one face centre
\* and one frame number, so the two lists stay equally long; frame_numbers is
\* strictly increasing, starts at 0 and reaches the interpolator unreordered.
C20_SamplerStride ==
    (call.op \in {"analyze", "analyze_video"} /\ call.video.exists /\ call.video.opened) =>
        LET D == Events("detect")
            Rank(d) == Cardinality({j \in D : j <= d})
        IN  /\ \A d \in D : log[d].frame = (Rank(d) - 1) * AnalyzerSampleRate
            /\ \A d \in D : log[d].frame < call.video.frames
            /\ call.video.detector_error = "none" =>
                  \A f \in 0 .. (call.video.frames - 1) :
                      f % AnalyzerSampleRate = 0
                          => Cardinality({d \in D : log[d].frame = f}) = 1
            /\ \A d \in D : log[d].raised = "none" =>
                  d < Len(log) /\ log[d + 1].ev = "_detect_face_center"
            /\ Cardinality(Events("_detect_face_center"))
                  = Cardinality({d \in D : log[d].raised = "none"})
            /\ \A g \in Events("_generate_crop_data") :
                  /\ Len(log[g].frame_numbers) = Cardinality(D)
                  /\ \A k \in 1 .. Len(log[g].frame_numbers) :
                        log[g].frame_numbers[k] = (k - 1) * AnalyzerSampleRate

\* an analysis at sample rate 5 of a video with 11 frames has sampled the
\* frames 0, 5 and 10 and interpolated
C20_Witness ==
    /\ call.op = "analyze"
    /\ call.sample_rate = 5
    /\ call.video.frames = 11
    /\ Cardinality(Events("detect")) = 3
    /\ \E g \in Events("_generate_crop_data") : log[g].frame_numbers = <<0, 5, 10>>
    /\ result.kind = "return"

----------------------------------------------------------------------------
(* The tracked frame range *)

\* k is an integer nearest to the rational x (at a tie, either neighbour)
IsRounded(k, x) == 2 * Abs(x.n - k * x.d) <= x.d

\* C21: the frame range tracked for a clip is [start_frame, end_frame) with
\* start_frame = round(start_time * fps) and end_frame = round(end_time * fps),
\* for all times 0 <= start_time < end_time and every frame rate
C21_FrameRangeRounded ==
    call.op = "frame_range" =>
        /\ IsRounded(result.range.start_frame, RMul(call.start_time, call.fps))
        /\ IsRounded(result.range.end_frame, RMul(call.end_time, call.fps))

----------------------------------------------------------------------------
(* Edge values of the moving averages *)

\* the window _smooth_positions works with for count inputs and window_size W
EffectiveWindow(count, W) == IF count < W THEN Max(3, count \div 2) ELSE W

\* the mean of the inputs in the part of the window of w values centred at
\* index i (from 1) that lies inside the sequence a of integers
CentredMean(a, i, w) ==
    LET lo == Max(1, i - (w \div 2))
        hi == Min(Len(a), i + (w \div 2))
    IN  Rat(ISum(a, lo, hi), hi - lo + 1)

\* every output of the _smooth_positions call is the mean of its centred window
\* cut to the sequence (windows of odd size, whose centre is an input)
EdgeMeansPositions ==
    (call.op = "_smooth_positions" /\ result.kind = "return") =>
        LET w == EffectiveWindow(Len(call.positions), call.window_size)
        IN  w % 2 = 1 =>
                \A i \in 1 .. Len(result.smoothed) :
                    /\ i <= Len(call.positions)
                    /\ result.smoothed[i] = CentredMean(call.positions, i, w)

\* the same for a _smooth_coordinates call that smooths (count >= window),
\* whose outputs are integers: the mean cut to an integer
EdgeMeansCoordinates ==
    (call.op = "_smooth_coordinates"
        /\ Len(call.coordinates) >= call.smoothing_window
        /\ call.smoothing_window % 2 = 1) =>
        \A i \in 1 .. Len(result.coords) :
            /\ i <= Len(call.coordinates)
            /\ result.coords[i] = Trunc(CentredMean(call.coordinates, i,
                                                    call.smoothing_window))

\* C22: with the effective window W, every output i of _smooth_positions and
\* of _smooth_coordinates is the mean of the inputs in the part of the window
\* centred at i that lies inside the sequence; the first and last W // 2
\* outputs are means of the available sub-window, not zero-padded values
C22_EdgesAreSubWindowMeans == EdgeMeansPositions /\ EdgeMeansCoordinates

----------------------------------------------------------------------------
(* Order of the stages *)

\* the calls that make up each stage of analyze and of create_clip
PlanningEvents == Events("_calculate_crop_dimensions")

SamplingEvents == Events("detect")

SmoothingEvents == Events("_smooth_positions") \cup Events("_smooth_coordinates")

FinalEvents == Events("_generate_crop_data") \cup Events("ffmpeg")

\* C23: within one analysis or clip call the stages run strictly forward and
\* at most once each: planning, then sampling, then smoothing, then
\* interpolation or the render strategy; the smoother starts only after the
\* last detector call has returned, and no stage is entered again or retried
C23_StagesForwardOnce ==
    /\ Cardinality(PlanningEvents) <= 1
    /\ Cardinality(SmoothingEvents) <= 1
    /\ Cardinality(FinalEvents) <= 1
    /\ \A p \in PlanningEvents : \A e \in SamplingEvents \cup SmoothingEvents : p < e
    /\ \A d \in SamplingEvents : \A s \in SmoothingEvents :
          /\ d < s
          /\ log[d].raised = "none"
          /\ d + 1 < s /\ log[d + 1].ev = "_detect_face_center"
    /\ \A e \in PlanningEvents \cup SamplingEvents \cup SmoothingEvents :
          \A f \in FinalEvents : e < f
    /\ \A d \in SamplingEvents : \A e \in SamplingEvents :
          d < e => log[d].frame < log[e].frame
    /\ \A d \in SamplingEvents :
          Cardinality({o \in Events("capture_open") : o < d}) = 1

\* a clip call that went through all four stages, with two detector calls
C23_Witness ==
    /\ call.op = "create_clip"
    /\ PlanningEvents # {}
    /\ Cardinality(SamplingEvents) >= 2
    /\ SmoothingEvents # {}
    /\ FinalEvents # {}
    /\ result.kind = "return"

----------------------------------------------------------------------------
(* One pair of display dimensions per clip *)

\* the stored size with width and height exchanged exactly for a rotation of
\* 90 or 270 degrees (calculate_display_dimensions of test_crop_detection.py)
DisplaySize(probe) ==
    IF probe.rotation = 90 \/ probe.rotation = 270
    THEN [width |-> probe.height, height |-> probe.width]
    ELSE [width |-> probe.width, height |-> probe.height]

----------------------------------------------------------------------------
(* Gain and error variance of the recursive smoother *)

\* a step that is an update call on a smoother that already has an estimate
UpdateAfterFirst == call = Idle /\ call'.op = "update" /\ estimate # <<>>

\* the error the update predicts before it weighs the measurement
PredictionError == RAdd(error, process_variance)

\* the gain of the step, read off self.error = (1 - kalman_gain) * prediction_error
StepGain == RSub(RInt(1), RDiv(error', PredictionError))

\* the gain of the step is strictly between 0 and 1 and the new error positive
GainAndErrorInRange ==
    /\ RLt(RInt(0), StepGain)
    /\ RLt(StepGain, RInt(1))
    /\ RLt(RInt(0), error')

\* C25: for positive variances, every update after the first computes a gain
\* strictly between 0 and 1, keeps the error variance positive, and leaves
\* the error variance strictly smaller than it was before that update
C25_ErrorShrinksEveryUpdate ==
    [][UpdateAfterFirst => (GainAndErrorInRange /\ RLt(error', error))]_vars

\* C25 as the code has it: the gain is strictly between 0 and 1 and the error
\* stays positive; the new error is strictly smaller than the predicted error
\* (error + process_variance) and than the measurement variance, and it is
\* smaller than the error before the update exactly when
\* error * (error + process_variance) > process_variance * measurement_variance
C25_ErrorBelowPrediction ==
    [][UpdateAfterFirst =>
        /\ GainAndErrorInRange
        /\ RLt(error', PredictionError)
        /\ RLt(error', measurement_variance)
        /\ RLt(error', error) <=>
              RLt(RMul(process_variance, measurement_variance),
                  RMul(error, PredictionError))]_vars

\* a second or later update has left the error above the initial 1.0
C25_Witness ==
    /\ call.op = "update"
    /\ fed >= 2
    /\ RLt(RInt(1), error)

----------------------------------------------------------------------------
(* The recursive smoother's state across calls *)

\* C26: a KalmanSmoother keeps its estimate and error variance across calls:
\* a smooth (or update) call on an instance that has already received
\* measurements continues from the stored state and is not re-seeded from its
\* first input; only the very first measurement an instance ever receives is
\* returned unchanged
C26_StateKeptAcrossCalls ==
    [][/\ (call # Idle /\ call' = Idle) =>
              (estimate' = estimate /\ error' = error)
       /\ (call = Idle /\ call'.op = "update") =>
              IF estimate = <<>>
              THEN result'.filtered = RInt(call'.measurement)
              ELSE Between(estimate[1], RInt(call'.measurement), result'.filtered)
       /\ (call = Idle /\ call'.op = "smooth") =>
              \A i \in 1 .. Len(call'.positions) :
                  IF i = 1 /\ estimate = <<>>
                  THEN result'.smoothed[i] = RInt(call'.positions[i])
                  ELSE Between(IF i = 1 THEN estimate[1] ELSE result'.smoothed[i - 1],
                               RInt(call'.positions[i]), result'.smoothed[i])]_vars

\* a smooth call on a smoother that had received measurements before it: its
\* first output is not its first input
C26_Witness ==
    /\ call.op = "smooth"
    /\ Len(call.positions) > 0
    /\ fed > Len(call.positions)
    /\ result.smoothed[1] # RInt(call.positions[1])

----------------------------------------------------------------------------
(* The planned window inside the source *)

\* C27: the planner's crop window always fits in the source (crop_width <=
\* width, crop_height <= height) and spans at least one full dimension of
\* it; whenever tracking is enabled the window has the source's full height
\* and is strictly narrower than the source
C27_CropFitsSource ==
    call.op = "_calculate_crop_dimensions" =>
        /\ result.crop.crop_width <= call.width
        /\ result.crop.crop_height <= call.height
        /\ result.crop.crop_width = call.width \/ result.crop.crop_height = call.height
        /\ ~result.crop.skip_face_detection =>
              /\ result.crop.crop_height = call.height
              /\ result.crop.crop_width < call.width

\* a near match whose ideal width does not fit: the window keeps the source's
\* width and loses height
C27_Witness ==
    /\ call.op = "_calculate_crop_dimensions"
    /\ result.crop.skip_face_detection
    /\ result.crop.crop_width = call.width
    /\ result.crop.crop_height < call.height
    /\ Trunc(Rat(call.height * call.aspect_ratio[1], call.aspect_ratio[2])) > call.width
    /\ RLe(RDiv(RAbs(RSub(Rat(call.width, call.height), Rat(call.aspect_ratio[1], call.aspect_ratio[2]))), Rat(call.aspect_ratio[1], call.aspect_ratio[2])), aspect_tolerance)

----------------------------------------------------------------------------
(* The analyzer's crop size against the planner's *)

\* the planner's window for the size and ratio of the call at hand
PlannerCrop == CalculateCropDimensions(call.width, call.height, call.aspect_ratio)

\* C28: the (crop_width, crop_height) the analyzer computes for a source
\* equals the planner's, for every positive source size and target ratio
C28_AnalyzerMatchesPlanner ==
    call.op = "analyze_crop_dimensions" =>
        /\ result.target.crop_width = PlannerCrop.crop_width
        /\ result.target.crop_height = PlannerCrop.crop_height

----------------------------------------------------------------------------
(* Smoother outputs within the range of the inputs *)

\* the least and the greatest of a non-empty sequence of integers
SeqMin(a) == CHOOSE m \in {a[i] : i \in 1 .. Len(a)} : \A i \in 1 .. Len(a) : m <= a[i]

SeqMax(a) == CHOOSE m \in {a[i] : i \in 1 .. Len(a)} : \A i \in 1 .. Len(a) : m >= a[i]

\* every value of the rational sequence out lies between the least and the
\* greatest of the integer inputs a, and a constant a comes back unchanged
WithinInputRange(a, out) ==
    /\ \A i \in 1 .. Len(out) :
          RLe(RInt(SeqMin(a)), out[i]) /\ RLe(out[i], RInt(SeqMax(a)))
    /\ SeqMin(a) = SeqMax(a) => out = [i \in 1 .. Len(a) |-> RInt(a[i])]

\* the property for the calls of VideoAnalyzer._smooth_positions
PositionsWithinRange ==
    (call.op = "_smooth_positions" /\ Len(call.positions) > 0) =>
        /\ result.kind = "return"
        /\ WithinInputRange(call.positions, result.smoothed)

\* for the calls of SmartClipper._smooth_coordinates
CoordinatesWithinRange ==
    (call.op = "_smooth_coordinates" /\ Len(call.coordinates) > 0) =>
        WithinInputRange(call.coordinates,
                         [i \in 1 .. Len(result.coords) |-> RInt(result.coords[i])])

\* for KalmanSmoother.smooth on an instance that was fresh when called
KalmanWithinRange ==
    (call.op = "smooth" /\ Len(call.positions) > 0 /\ fed = Len(call.positions)) =>
        WithinInputRange(call.positions, result.smoothed)

\* C29: every output of a smoother lies between the minimum and the maximum
\* of its input sequence, for every non-empty input (_smooth_positions,
\* _smooth_coordinates, KalmanSmoother.smooth on a fresh instance); a constant
\* input sequence is returned unchanged
C29_SmoothersStayInRange ==
    PositionsWithinRange /\ CoordinatesWithinRange /\ KalmanWithinRange

----------------------------------------------------------------------------
(* Captures and writers are released *)

\* the call at hand was given a video that the capture could open (calls that
\* take no video open no capture)
VideoOpens == "video" \in DOMAIN call => call.video.opened

\* C30: every capture (and writer) a call opened is released before that call
\* ends, on every exit path: also when the detector raises during analysis or
\* tracking and when render_precise is given empty crop data
C30_CapturesReleased ==
    VideoOpens =>
        /\ Cardinality(Events("capture_open")) = Cardinality(Events("capture_release"))
        /\ Cardinality(Events("writer_open")) = Cardinality(Events("writer_release"))

====
